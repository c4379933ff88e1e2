--------------------------- MODULE ElementWrites ---------------------------
(***************************************************************************)
(* What a call does to an accessible object: set_element_value, which sets *)
(* a number or a text and reads the text back, and perform_action_inner,   *)
(* which reads the object's actions again and invokes one by its index.    *)
(* Every D-Bus call is a step of its own; the application applies a text   *)
(* at once, late, or changed, edits it, and replaces its actions.  A call  *)
(* that changes the element may fail after the application was reached:    *)
(* its answer is lost, and what was asked for is done, or will be.         *)
(***************************************************************************)
EXTENDS Naturals, Sequences, FiniteSets, SequencesExt

CONSTANTS
    Scalars,      \* the characters of texts
    Texts,        \* what a field may hold: sequences of UTF-16 units
    KeptOf,       \* what a field that does not keep a text as it is makes of it
    Half,         \* what a peer returns for half a pair
    ActionLists,  \* the actions an element may have: sequences of names
    Chunk,        \* EDITABLE_TEXT_READ_CHUNK_UNITS
    MaxRetries,   \* bound on the reads of a text within EDITABLE_TEXT_VERIFY_TIMEOUT
    MaxAppSteps,  \* bound on what the application does
    Null

\* A unit is a character, or the first or second half of a pair.
Unit == Scalars \X {0, 1, 2}

\* What a client is told.
Outcomes == {"number", "error", "rejected", "unsure", "failed", "timed_out", "password", "verified",
             "mismatch", "ran", "refused"}

ASSUME WritesAssumption ==
    /\ Null \notin Outcomes
    /\ Chunk \in Nat \ {0, 1} /\ MaxRetries \in Nat /\ MaxAppSteps \in Nat
    /\ Texts \subseteq Seq(Unit) /\ Half \notin Scalars
    \* the halves of a pair are beside each other
    /\ \A t \in Texts : \A i \in DOMAIN t :
          /\ t[i][2] = 1 => i + 1 \in DOMAIN t
          /\ t[i][2] = 2 <=> i > 1 /\ t[i - 1][2] = 1
    /\ KeptOf \in [Texts -> Texts] /\ <<>> \in Texts
    /\ \A l \in ActionLists : l \in Seq(Range(l)) /\ Null \notin Range(l)

VARIABLES
    element,    \* the interfaces, whether it is a password, and how it counts characters
    content,   \* the text of the field
    pending,   \* a text the application has accepted and not applied, or Null
    actions,   \* the names of the actions
    wish,     \* what the call asks for
    step,
    readback,      \* how far a text is read: the peer's counting, and the offset
    names,     \* the actions read so far
    index,     \* the action to invoke
    took,      \* the element took the value that was sent
    due,       \* the index of an action the application was sent and has not run, or 0
    outcome,   \* what the client is told
    changed,   \* the field changed since the reading began
    replaced,  \* the actions changed since they were read first
    invoked,   \* the actions the application ran
    recovered, \* the object was gone and another was found in its place
    retries, appSteps

writeVars == <<element, content, pending, actions, wish, step, readback, names, index, took,
               due, outcome, changed, replaced, invoked, recovered, retries, appSteps>>
appVars == <<content, pending, actions, changed, replaced, appSteps>>

\* The units a character begins with, and the characters of a text.
Starts(t) == {i \in DOMAIN t : t[i][2] # 2}
Chars(t) == Cardinality(Starts(t))

\* The length of a text, and the units before an offset, as one counts who counts so.
Count(t, units) == IF units = "utf16" THEN Len(t) ELSE Chars(t)
Before(t, units, k) ==
    IF units = "utf16" THEN k
    ELSE Cardinality({i \in DOMAIN t : Cardinality(Starts(t) \cap 1..i) <= k})

Piece(t, units, from, to) == SubSeq(t, Before(t, units, from) + 1, Before(t, units, to))

\* The application's answers: CharacterCount, and GetText from an offset to another, in
\* which half a pair is no character of the text.
CharacterCount(t) == Count(t, element.units)
Halved(u) == [i \in DOMAIN u |-> IF (i = 1 /\ u[i][2] = 2) \/ (i = Len(u) /\ u[i][2] = 1)
                                THEN <<Half, 0>> ELSE u[i]]
GetText(from, to) ==
    LET n == IF to < CharacterCount(content) THEN to ELSE CharacterCount(content)
        u == Piece(content, element.units, from, n)
    IN IF element.units = "utf16" THEN Halved(u) ELSE u

NoRead == [units |-> Null, from |-> 0]

WriteBegins ==
    /\ pending = Null /\ step = "begin" /\ readback = NoRead
    /\ names = <<>> /\ index = 0 /\ took = FALSE /\ due = 0 /\ outcome = Null
    /\ changed = FALSE /\ replaced = FALSE /\ invoked = <<>> /\ recovered = FALSE
    /\ retries = 0 /\ appSteps = 0

WriteInit ==
    /\ element \in [faces : SUBSET {"value", "editable"}, password : BOOLEAN,
                   units : {"scalars", "utf16"}, keeps : BOOLEAN]
    /\ wish \in [kind : {"set"}, text : Texts, number : BOOLEAN]
              \cup [kind : {"act"}, name : UNION {Range(l) : l \in ActionLists}]
    /\ actions \in IF wish.kind = "act" THEN ActionLists ELSE {<<>>}
    /\ content \in IF wish.kind = "set" THEN {<<>>} ELSE {Null}
    /\ wish.kind = "act" => element.faces = {} /\ ~element.password /\ element.units = "scalars"
                             /\ element.keeps
    /\ WriteBegins

Told(what) == step' = "done" /\ outcome' = what

(***************************************************************************)
(* set_element_value                                                       *)
(***************************************************************************)

\* The element does not answer, or it has no interface for the value.
CannotSet ==
    /\ step = "begin" /\ wish.kind = "set" /\ Told("error")
    /\ UNCHANGED <<element, wish, readback, names, index, took, due, invoked, recovered, retries,
                   appVars>>

\* SetCurrentValue: it has no answer of its own, and may fail once the value is set.
SetNumber ==
    /\ step = "begin" /\ wish.kind = "set" /\ wish.number /\ "value" \in element.faces
    /\ \/ Told("number") /\ took' = TRUE
       \/ Told("unsure") /\ took' \in BOOLEAN
    /\ UNCHANGED <<element, wish, readback, names, index, due, invoked, recovered, retries, appVars>>

\* SetTextContents: the application rejects it, or accepts it and has it now or later, as it
\* is or as the field keeps it; the call may fail before the application has seen it, or
\* once it was accepted.
SetText ==
    /\ step = "begin" /\ wish.kind = "set" /\ "editable" \in element.faces
    /\ ~(wish.number /\ "value" \in element.faces)
    /\ \/ /\ Told("rejected") \/ Told("unsure")
          /\ UNCHANGED <<took, content, pending>>
       \/ /\ took' = TRUE
          /\ \/ step' = "role" /\ UNCHANGED outcome
             \/ Told("unsure")
          /\ LET kept == IF element.keeps THEN wish.text ELSE KeptOf[wish.text] IN
             \/ content' = kept /\ UNCHANGED pending
             \/ pending' = kept /\ UNCHANGED content
    /\ UNCHANGED <<element, actions, wish, readback, names, index, due, changed, replaced, invoked,
                   recovered, retries, appSteps>>

\* readback_within: the read fails, or the deadline passes first.
ReadbackFails ==
    /\ step \in {"role", "count", "chunk"} /\ (Told("failed") \/ Told("timed_out"))
    /\ UNCHANGED <<element, wish, readback, names, index, took, due, invoked, recovered, retries,
                   appVars>>

\* Mutant: a password is read as any other text.
IsPasswordNever == FALSE

IsPassword == element.password

ReadRole ==
    /\ step = "role"
    /\ IF IsPassword THEN Told("password") ELSE step' = "count" /\ UNCHANGED outcome
    /\ UNCHANGED <<element, wish, readback, names, index, took, due, invoked, recovered, retries,
                   appVars>>

\* What does not match is read again, until the deadline.
Mismatch ==
    \/ step' = "again" /\ UNCHANGED outcome
    \/ Told("mismatch")

\* text_readback_matches: the count tells how the peer counts, or that the text differs.
ReadCount ==
    /\ step = "count" /\ changed' = FALSE
    /\ LET n == CharacterCount(content) IN
       IF n \in {Chars(wish.text), Len(wish.text)}
       THEN /\ readback' = [units |-> IF n = Chars(wish.text) THEN "scalars" ELSE "utf16", from |-> 0]
            /\ step' = "chunk" /\ UNCHANGED outcome
       ELSE Mismatch /\ UNCHANGED readback
    /\ UNCHANGED <<element, content, pending, actions, replaced, appSteps, wish, names, index, took,
                   due, invoked, recovered, retries>>

Wanted == Count(wish.text, readback.units)

\* Mutant: a chunk ends anywhere.
ChunkEndAnywhere == IF readback.from + Chunk < Wanted THEN readback.from + Chunk ELSE Wanted

\* A chunk does not end within a pair.
ChunkEnd ==
    LET end == IF readback.from + Chunk < Wanted THEN readback.from + Chunk ELSE Wanted
    IN IF readback.units = "utf16" /\ end < Wanted /\ wish.text[end][2] = 1 THEN end - 1 ELSE end

\* Mutant: a chunk that begins as it should matches.
ChunkMatchesPrefix(got, want) == IsPrefix(got, want)

ChunkMatches(got, want) == got = want

ReadChunk ==
    /\ step = "chunk"
    /\ IF readback.from >= Wanted
       THEN Told("verified") /\ UNCHANGED readback
       ELSE IF ChunkMatches(GetText(readback.from, ChunkEnd),
                            Piece(wish.text, readback.units, readback.from, ChunkEnd))
       THEN readback' = [readback EXCEPT !.from = ChunkEnd] /\ UNCHANGED <<step, outcome>>
       ELSE Mismatch /\ UNCHANGED readback
    /\ UNCHANGED <<element, wish, names, index, took, due, invoked, recovered, retries,
                   appVars>>

ReadAgain ==
    /\ step = "again" /\ retries < MaxRetries
    /\ retries' = retries + 1 /\ step' = "count" /\ readback' = NoRead
    /\ UNCHANGED <<element, wish, names, index, took, due, outcome, invoked, recovered, appVars>>

DeadlinePasses ==
    /\ step = "again" /\ Told("mismatch")
    /\ UNCHANGED <<element, wish, readback, names, index, took, due, invoked, recovered, retries,
                   appVars>>

(***************************************************************************)
(* perform_action_inner                                                    *)
(***************************************************************************)

\* The count of the actions is read, then their names; some have no answer.
ReadActions ==
    /\ step = "begin" /\ wish.kind = "act"
    /\ \/ /\ names' = [i \in DOMAIN actions |-> Null] /\ step' = "names"
          /\ UNCHANGED outcome
       \/ step' = "gone" /\ outcome' = "error" /\ UNCHANGED names
    /\ replaced' = FALSE
    /\ UNCHANGED <<element, content, pending, actions, changed, appSteps, wish, readback, index, took,
                   due, invoked, recovered, retries>>

\* Mutant: the names that were read are counted, not their places.
ActionIndexOfRead(list, name) ==
    LET got == SelectSeq(list, LAMBDA n : n # Null) IN
    IF \E i \in DOMAIN got : got[i] = name
    THEN CHOOSE i \in DOMAIN got : got[i] = name /\ \A k \in 1..i - 1 : got[k] # name ELSE 0

\* select_named_action_index, select_action_index: the first of the name, 0 for none.
ActionIndex(list, name) ==
    IF \E i \in DOMAIN list : list[i] = name
    THEN CHOOSE i \in DOMAIN list : list[i] = name /\ \A k \in 1..i - 1 : list[k] # name ELSE 0

\* The names are read one by one; one that cannot be read is empty in its place.
ReadNames ==
    /\ step = "names"
    /\ \E lost \in SUBSET DOMAIN names :
          LET got == [i \in DOMAIN names |-> IF i \in lost \/ i > Len(actions) THEN Null ELSE actions[i]]
              at == ActionIndex(got, wish.name) IN
          /\ names' = got
          /\ IF at = 0 THEN Told("error") /\ UNCHANGED index
             ELSE step' = "do" /\ index' = at /\ UNCHANGED outcome
    /\ UNCHANGED <<element, wish, readback, took, due, invoked, recovered, retries,
                   appVars>>

\* Mutant: the whole call has a deadline.
RevalidatingAll == step \in {"names", "do", "doing"}

\* ACTION_QUERY_TIMEOUT covers the reads alone.
Revalidating == step = "names"

QueryTimesOut ==
    /\ Revalidating /\ Told("error")
    /\ UNCHANGED <<element, wish, readback, names, index, took, due, invoked, recovered, retries,
                   appVars>>

DoAction ==
    /\ step = "do" /\ step' = "doing" /\ due' = index
    /\ UNCHANGED <<element, wish, readback, names, index, took, outcome, invoked, recovered, retries,
                   appVars>>

ActionAnswers ==
    /\ step = "doing" /\ due = 0
    /\ Told(IF invoked # <<>> THEN "ran" ELSE "refused")
    /\ UNCHANGED <<element, wish, readback, names, index, took, due, invoked, recovered, retries, appVars>>

\* The call fails: it did not get there, its answer is lost, or it is still to be run.
ActionFails ==
    /\ step = "doing" /\ step' = "gone" /\ outcome' = "unsure" /\ due' \in {0, due}
    /\ UNCHANGED <<element, wish, readback, names, index, took, invoked, recovered, retries, appVars>>

\* Mutant: whatever failed because the object is gone is done again on the one in its place.
MayRecoverAny == outcome \in {"error", "unsure"}

\* is_recoverable_action_query_error: not once an action was sent.
MayRecover == outcome = "error"

\* perform_element_action_with: the object is gone, and the one found in its place is asked.
Recovers ==
    /\ step = "gone" /\ MayRecover /\ ~recovered
    /\ recovered' = TRUE /\ step' = "begin" /\ outcome' = Null /\ names' = <<>> /\ index' = 0
    /\ actions' \in ActionLists
    /\ UNCHANGED <<element, content, pending, changed, replaced, appSteps, wish, readback, took, due,
                   invoked, retries>>

GivesUp ==
    /\ step = "gone" /\ step' = "done"
    /\ UNCHANGED <<element, wish, readback, names, index, took, due, outcome, invoked, recovered,
                   retries, appVars>>

WriteStep ==
    \/ CannotSet \/ SetNumber \/ SetText \/ ReadRole \/ ReadbackFails \/ ReadCount \/ ReadChunk
    \/ ReadAgain \/ DeadlinePasses
    \/ ReadActions \/ ReadNames \/ QueryTimesOut \/ DoAction \/ ActionAnswers \/ ActionFails
    \/ Recovers \/ GivesUp

(***************************************************************************)
(* The application                                                         *)
(***************************************************************************)
AppActs == /\ step \notin {"begin", "done"} \/ due # 0
           /\ appSteps < MaxAppSteps /\ appSteps' = appSteps + 1
           /\ UNCHANGED <<element, wish, step, readback, names, index, took, due, outcome,
                          invoked, recovered, retries>>

\* The action that has the index by now is run, or it is refused, or there is none.
RunsAction ==
    /\ due # 0 /\ due' = 0
    /\ invoked' \in {invoked} \cup {Append(invoked, actions[i]) : i \in {due} \cap DOMAIN actions}
    /\ UNCHANGED <<element, wish, step, readback, names, index, took, outcome, recovered, retries,
                   appVars>>

AppliesText ==
    /\ pending # Null /\ AppActs
    /\ content' = pending /\ pending' = Null /\ changed' = TRUE
    /\ UNCHANGED <<actions, replaced>>

EditsText ==
    /\ AppActs /\ wish.kind = "set"
    /\ content' \in Texts \ {content} /\ changed' = TRUE
    /\ UNCHANGED <<pending, actions, replaced>>

ReplacesActions ==
    /\ AppActs /\ wish.kind = "act"
    /\ actions' \in ActionLists \ {actions} /\ replaced' = TRUE
    /\ UNCHANGED <<content, pending, changed>>

WriteNext == WriteStep \/ RunsAction \/ AppliesText \/ EditsText \/ ReplacesActions
WriteSpec == WriteInit /\ [][WriteNext]_writeVars
-----------------------------------------------------------------------------
\* "Set and verified" means that the field holds just that text, however it counts
\* characters and wherever a chunk ends, unless it changed while it was read; a text that
\* is there and stays is never called another; and a password is not read.
VerifiedIsHeld ==
    step = "done" =>
        /\ outcome = "verified" => took /\ (content = wish.text \/ changed)
        /\ outcome \in {"verified", "mismatch"} => ~element.password
        /\ outcome = "mismatch" => content # wish.text \/ changed

\* The action runs once at most, though a call on an object that is gone is made again on
\* another and an answer may be lost ("once DoAction is sent, it may already have acted").
\* A client that is told that it was refused, or of an error other than that setting or
\* invoking failed, can do it again: nothing was changed and nothing is still to be.
ErrorMeansNothing ==
    /\ Len(invoked) + (IF due # 0 THEN 1 ELSE 0) <= 1
    /\ step = "done" =>
        /\ outcome \in {"error", "rejected", "refused"} => ~took /\ due = 0 /\ invoked = <<>>
        /\ outcome = "ran" => invoked # <<>>

\* The action that runs has the name that was asked for, also when other names could not
\* be read, unless the application replaced its actions meanwhile.
ActionIsNamed == \A i \in DOMAIN invoked : invoked[i] # wish.name => replaced

WritesAreTold == VerifiedIsHeld /\ ErrorMeansNothing /\ ActionIsNamed
=============================================================================
