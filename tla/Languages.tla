------------------------------- MODULE Languages -------------------------------
(***************************************************************************)
(* Languages and interface texts: the tables an administrator edits        *)
(* (blueprints/admin/content.py), the texts the web process holds in       *)
(* memory (utils/i18n_helper.py) and its list of languages                 *)
(* (app/__init__.py).  One text stands for all.                            *)
(***************************************************************************)
EXTENDS Integers, FiniteSets

CONSTANTS
    Codes,      \* language codes, "en" and "de" among them
    ListTTL,    \* lifetime of the list of languages
    MaxAge      \* bound: what is older counts as this old

ASSUME LanguageAssumption ==
    {"en", "de"} \subseteq Codes /\ ListTTL \in Nat \ {0} /\ MaxAge \in Nat /\ MaxAge >= ListTTL

VARIABLES
    langs,      \* [Codes -> Lang], NoLang where no row is
    inMemory,   \* _cache: [Codes -> text], "unloaded" where the language is not in it
    fallback,   \* _default_lang
    list,       \* _lang_cache_data
    listAge,    \* age of the list; MaxAge when it has been invalidated
    gone        \* history: [Codes -> time since the language was last active]

languageVars == <<langs, inMemory, fallback, list, listAge, gone>>

-----------------------------------------------------------------------------
\* "none": no row; "blank": an empty text; two texts an administrator wrote.
LangTexts == {"none", "blank", "seeded", "edited", "revised"}
Lang == [active : BOOLEAN, default : BOOLEAN, text : LangTexts]
NoLang == [active |-> FALSE, default |-> FALSE, text |-> "absent"]
Known == {c \in Codes : langs[c] # NoLang}
Active == {c \in Known : langs[c].active}
Sooner(n) == IF n > MaxAge THEN MaxAge ELSE n
Empty == [c \in Codes |-> "unloaded"]

\* seed_languages: languages and texts that are missing are inserted; English
\* becomes the default when it is new or there is no other.
SeededLangs(ls) ==
    LET texts == [c \in Codes |->
                    IF c \notin {"en", "de"} THEN ls[c]
                    ELSE IF ls[c] = NoLang
                    THEN [active |-> TRUE, default |-> c = "en", text |-> "seeded"]
                    ELSE IF ls[c].text = "none" THEN [ls[c] EXCEPT !.text = "seeded"] ELSE ls[c]]
    IN IF \E c \in Codes : texts[c].default THEN texts
       ELSE [texts EXCEPT !["en"].default = TRUE]

\* warm_cache loads the active languages; of several defaults the last one read
\* is kept, without any a new process falls back on English.
Warm(ls) ==
    LET on == {c \in Codes : ls[c] # NoLang /\ ls[c].active}
        named == {c \in on : ls[c].default}
    IN /\ inMemory' = [c \in Codes |-> IF c \in on THEN ls[c].text ELSE "unloaded"]
       /\ fallback' \in IF named = {} THEN {"en"} ELSE named

LanguagesInit ==
    /\ langs = SeededLangs([c \in Codes |-> NoLang])
    /\ inMemory = [c \in Codes |-> IF c \in {"en", "de"} THEN "seeded" ELSE "unloaded"]
    /\ fallback = "en"
    /\ list = {}
    /\ listAge = MaxAge
    /\ gone = [c \in Codes |-> IF c \in {"en", "de"} THEN 0 ELSE MaxAge]

\* _t: the text in memory of the user's language, or if there is none, or an empty
\* one, that of the fallback, or else the default written where _t is called.
Looked(c) == inMemory[c]
Shown(c) ==
    LET text == IF Looked(c) \in {"none", "unloaded", "blank"} THEN Looked(fallback) ELSE Looked(c)
    IN IF text \in {"none", "unloaded"} THEN "default" ELSE text

-----------------------------------------------------------------------------
\* invalidate_cache and invalidate_language_cache
Forget == inMemory' = Empty /\ UNCHANGED fallback
ForgetList == listAge' = MaxAge /\ UNCHANGED list

Here == gone' = [c \in Codes |-> IF langs'[c].active THEN 0 ELSE gone[c]]

Undefault(ls) == [c \in Codes |-> IF ls[c] = NoLang THEN NoLang ELSE [ls[c] EXCEPT !.default = FALSE]]

LanguageNew(c, on, d) ==
    /\ c \notin Known
    /\ langs' = [(IF d THEN Undefault(langs) ELSE langs) EXCEPT ![c] =
                   [active |-> on, default |-> d, text |-> "none"]]
    /\ Forget /\ ForgetList /\ Here

\* update_meta; English can be neither switched off nor deleted.
UpdateMeta(c, on, d) ==
    /\ c \in Known
    /\ langs' = IF c = "en" THEN [langs EXCEPT ![c].active = TRUE, ![c].default = TRUE]
                ELSE [(IF d THEN Undefault(langs) ELSE langs) EXCEPT ![c].active = on,
                                                                   ![c].default = @ \/ d]
    /\ Forget /\ ForgetList /\ Here

\* Variant for CachesFollow: the text is replaced in the table only.
EditInTable(c, text) ==
    /\ c \in Known
    /\ langs' = [langs EXCEPT ![c].text = text]
    /\ UNCHANGED <<inMemory, fallback, list, listAge, gone>>

\* save_string, bulk_save, delete_string
EditText(c, text) ==
    /\ c \in Known
    /\ langs' = [langs EXCEPT ![c].text = text]
    /\ Forget
    /\ UNCHANGED <<list, listAge, gone>>

\* delete_language does not invalidate the list.
DeleteLanguage(c) ==
    /\ c \in Known \ {"en"}
    /\ langs' = [langs EXCEPT ![c] = NoLang]
    /\ Forget
    /\ UNCHANGED <<list, listAge, gone>>

\* _get_active_languages: what a request is served.
Offered == IF list # {} /\ listAge < ListTTL THEN list ELSE Active

ServeList ==
    /\ list' = Offered
    /\ listAge' = IF list # {} /\ listAge < ListTTL THEN listAge ELSE 0
    /\ UNCHANGED <<langs, inMemory, fallback, gone>>

LanguageTick ==
    /\ listAge' = Sooner(listAge + 1)
    /\ gone' = [c \in Codes |-> IF c \in Active THEN 0 ELSE Sooner(gone[c] + 1)]
    /\ UNCHANGED <<langs, inMemory, fallback, list>>

\* The worker seeds hourly, from a process with caches of its own.
WorkerSeeds ==
    /\ langs' = SeededLangs(langs)
    /\ Here
    /\ UNCHANGED <<inMemory, fallback, list, listAge>>

\* The web process starts anew.
WebRestarts ==
    /\ langs' = SeededLangs(langs)
    /\ Warm(SeededLangs(langs))
    /\ list' = {} /\ listAge' = MaxAge /\ Here

\* db_reset empties the tables, seeds them and loads the texts.
ResetLanguages ==
    /\ langs' = SeededLangs([c \in Codes |-> NoLang])
    /\ Warm(langs')
    /\ Here
    /\ UNCHANGED <<list, listAge>>

LanguagesNext ==
    \/ \E c \in Codes, on, d \in BOOLEAN : LanguageNew(c, on, d) \/ UpdateMeta(c, on, d)
    \/ \E c \in Codes, text \in LangTexts \ {"seeded"} : EditText(c, text)
    \/ \E c \in Codes : DeleteLanguage(c)
    \/ ServeList \/ LanguageTick \/ WorkerSeeds \/ WebRestarts \/ ResetLanguages

LanguagesSpec == LanguagesInit /\ [][LanguagesNext]_languageVars

-----------------------------------------------------------------------------
(* Properties *)

\* What is in memory is what the table has.
NeverOutdated ==
    \A c \in Codes : inMemory[c] \notin {"none", "unloaded"} => c \in Known /\ inMemory[c] = langs[c].text

\* Parts of CachesFollow.
TextsCurrent ==
    \A c \in Codes :
        \/ Shown(c) = "default"
        \/ \E d \in {c, fallback} : d \in Known /\ Shown(c) = langs[d].text
ListRecent == \A c \in Offered : c \in Active \/ gone[c] < ListTTL

\* What a user is shown is what the table has at that moment for his language or for
\* the fallback, or else the default written in the program, whatever is edited,
\* deleted, seeded by another process, reset and restarted (_t, invalidate_cache).
\* The default it often is: an edit clears the memory, and nothing loads it again
\* before a restart or a reset.  And "a 60-second TTL avoids the repeated DB
\* round-trip while keeping the cache fresh after admin edits" (app/__init__.py): a
\* language that has been switched off or deleted is offered for no longer than
\* that, although delete_language leaves the list alone.
CachesFollow == TextsCurrent /\ ListRecent
=============================================================================
