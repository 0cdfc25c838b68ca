------------------------------- MODULE Importer -----------------------------
(***************************************************************************)
(* The import of a session from its transcript (services/session-history-   *)
(* importer.ts): prompts become events as they are read, the texts of the   *)
(* assistant are collected and become one answer where the user speaks      *)
(* again or the file ends.  The session may go on meanwhile, a store may    *)
(* fail, the import may die, and be repeated, with or without `force'.      *)
(* Tools, thinking and malformed lines leave nothing; short texts, and the  *)
(* cut of long answers, are left out.                                       *)
(***************************************************************************)
EXTENDS Naturals, Sequences

CONSTANTS MaxEntries, MaxImports    \* bounds

ASSUME ImporterAssumption == MaxEntries \in Nat /\ MaxImports \in Nat

Nowhere == <<0, 0>>         \* no turn yet; else <<import, entry>>
NoImport == MaxEntries + 1

VARIABLES
    spoken,     \* the transcript: "x" and "y" are prompts worth storing,
                \* "trivial" ones are not, "text" is the assistant's
    imported,   \* events: [prompt, texts, turn], a prompt without texts, or
                \* the answer "" of the texts at some places
    place,      \* the entries read; or NoImport
    collected,  \* textBuffer, as places
    turnId,     \* currentTurnId
    imports,    \* begun
    forced,     \* the import has deleted the events
    failed,     \* a store of this import has failed
    whole,      \* history: how far an import without failure got, since the
                \* events were deleted
    exact       \* history: the same of a forced one, after which there was
                \* no other

importVars == <<spoken, imported, place, collected, turnId, imports, forced,
                failed, whole, exact>>

Entry == {"x", "y", "trivial", "text"}
Prompts == {"x", "y"}

(* An event is a prompt or an answer, never both.                           *)
PromptsOrAnswers(E) == \A v \in E : v.prompt = "" <=> v.texts # {}

ImporterTypeOK ==
    /\ spoken \in Seq(Entry) /\ Len(spoken) <= MaxEntries
    /\ PromptsOrAnswers(imported)
    /\ place \in 0 .. Len(spoken) \cup {NoImport}
    /\ collected \subseteq {n \in DOMAIN spoken : spoken[n] = "text"}
    /\ imports \in 0 .. MaxImports /\ forced \in BOOLEAN
    /\ failed \in BOOLEAN
    /\ whole \in 0 .. Len(spoken) /\ exact \in 0 .. whole

ImporterInit ==
    /\ spoken = <<>> /\ imported = {}
    /\ place = NoImport /\ collected = {} /\ turnId = Nowhere
    /\ imports = 0 /\ forced = FALSE /\ failed = FALSE
    /\ whole = 0 /\ exact = 0

-----------------------------------------------------------------------------
(* The user or the assistant says something more.                           *)
Speak(e) ==
    /\ Len(spoken) < MaxEntries
    /\ spoken' = Append(spoken, e)
    /\ UNCHANGED <<imported, place, collected, turnId, imports, forced,
                   failed, whole, exact>>

(* A forced import of a file with no record does nothing.                   *)
StartImport(force) ==
    /\ place = NoImport /\ imports < MaxImports
    /\ force => spoken # <<>>
    /\ imported' = IF force THEN {} ELSE imported
    /\ whole' = IF force THEN 0 ELSE whole
    /\ exact' = 0
    /\ place' = 0 /\ collected' = {} /\ turnId' = Nowhere
    /\ imports' = imports + 1 /\ forced' = force /\ failed' = FALSE
    /\ UNCHANGED spoken

(* An event with the same text is a duplicate: the old one stays.           *)
WithEvent(v, E) ==
    IF \E w \in E : w.prompt = v.prompt /\ w.texts = v.texts
    THEN E ELSE E \cup {v}

PromptOf(said, id) == [prompt |-> said, texts |-> {}, turn |-> id]
AnswerOf(texts, id) == [prompt |-> "", texts |-> texts, turn |-> id]

(* flushTextBuffer() stores nothing and keeps the texts if there is no turn *)
(* Mistaken variant: any turn has one.                                      *)
HasAnyAnswer == turnId # Nowhere
HasAnswer == collected # {} /\ turnId # Nowhere
Flushed(E) ==
    IF HasAnswer THEN WithEvent(AnswerOf(collected, turnId), E) ELSE E
(* Mistaken variant: the buffer is not emptied.                             *)
RemainingAll == collected
Remaining == IF HasAnswer THEN {} ELSE collected

ReadText ==
    /\ place < Len(spoken) /\ spoken[place + 1] = "text"
    /\ collected' = collected \cup {place + 1}
    /\ place' = place + 1
    /\ UNCHANGED <<spoken, imported, turnId, imports, forced, failed, whole,
                   exact>>

(* The answer before it first; if that fails, the entry is passed over.     *)
FailFlush ==
    /\ place < Len(spoken) /\ spoken[place + 1] # "text" /\ HasAnswer
    /\ failed' = TRUE
    /\ place' = place + 1
    /\ UNCHANGED <<spoken, imported, collected, turnId, imports, forced, whole,
                   exact>>

ReadTrivial ==
    /\ place < Len(spoken) /\ spoken[place + 1] = "trivial"
    /\ imported' = Flushed(imported) /\ collected' = Remaining
    /\ place' = place + 1
    /\ UNCHANGED <<spoken, turnId, imports, forced, failed, whole, exact>>

ReadPrompt ==
    /\ place < Len(spoken) /\ spoken[place + 1] \in Prompts
    /\ turnId' = <<imports, place + 1>>
    /\ collected' = Remaining
    /\ place' = place + 1
    /\ \/ /\ imported' = WithEvent(PromptOf(spoken[place + 1], turnId'),
                              Flushed(imported))
          /\ UNCHANGED failed
       \/ imported' = Flushed(imported) /\ failed' = TRUE
    /\ UNCHANGED <<spoken, imports, forced, whole, exact>>

(* Mistaken variant: the last answer waits for another prompt.              *)
FinalForgotten(E) == E
Final(E) == Flushed(E)

EndImport ==
    /\ place = Len(spoken)
    /\ \/ /\ imported' = Final(imported)
          /\ whole' = IF failed THEN whole ELSE place
          /\ exact' = IF forced /\ ~failed THEN place ELSE 0
       \/ HasAnswer /\ UNCHANGED <<imported, whole, exact>>
    /\ place' = NoImport
    /\ collected' = {} /\ turnId' = Nowhere
    /\ forced' = FALSE /\ failed' = FALSE
    /\ UNCHANGED <<spoken, imports>>

DieImporting ==
    /\ place # NoImport /\ place' = NoImport
    /\ collected' = {} /\ turnId' = Nowhere
    /\ forced' = FALSE /\ failed' = FALSE
    /\ UNCHANGED <<spoken, imported, imports, whole, exact>>

ImporterNext ==
    \/ \E e \in Entry : Speak(e)
    \/ \E force \in BOOLEAN : StartImport(force)
    \/ ReadText \/ FailFlush \/ ReadTrivial \/ ReadPrompt \/ EndImport
    \/ DieImporting

ImporterSpec == ImporterInit /\ [][ImporterNext]_importVars

-----------------------------------------------------------------------------
BeginsWell == spoken # <<>> /\ spoken[1] \in Prompts
Said == {n \in DOMAIN spoken : spoken[n] \in Prompts}
TextPlaces == {n \in DOMAIN spoken : spoken[n] = "text"}
Answers == {v \in imported : v.prompt = ""}

(* An import that ended without a failure makes up for those which failed   *)
(* or died, and for what was deleted: as far as it read, each prompt is an  *)
(* event and each text in one, if the transcript begins with a prompt.      *)
ImportedIsWhole ==
    BeginsWell =>
        /\ \A n \in Said : n <= whole =>
              \E v \in imported : v.prompt = spoken[n]
        /\ \A n \in TextPlaces : n <= whole =>
              \E v \in Answers : n \in v.texts

(* The texts up to the next entry of the user, on both sides.               *)
Around(n) == {m \in TextPlaces : m <= exact
                                /\ (m .. n) \cup (n .. m) \subseteq TextPlaces}
PromptBefore(n) == CHOOSE m \in Said :
                      m < n /\ \A k \in Said : k < n => k <= m
SaidOnce(n) == \A m \in Said : spoken[m] = spoken[n] => m = n

(* A forced import leaves what one would write down: an answer for each run *)
(* of texts, in the turn of the prompt before it, unless that was a         *)
(* repetition, and nothing of what was there.                               *)
ForcedIsExact ==
    exact > 0 /\ BeginsWell =>
        /\ {v.texts : v \in Answers} =
              {Around(n) : n \in TextPlaces \cap 1 .. exact}
        /\ \A v \in Answers : \A n \in v.texts :
              LET m == PromptBefore(n)
              IN  SaidOnce(m) => PromptOf(spoken[m], v.turn) \in imported

(* An import stores what the transcript says: whole answers under their     *)
(* prompts, and after a forced one nothing else.                            *)
ImportIsFaithful == ImportedIsWhole /\ ForcedIsExact
=============================================================================
