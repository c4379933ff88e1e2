--------------------------- MODULE WindowFocus_proof ---------------------------
(***************************************************************************)
(* Proofs about WindowFocus and the script transactions of KwinScript, for *)
(* any callers, windows, targets and faults.                               *)
(*                                                                         *)
(* First what a transaction leaves behind (LeftBehind), then what a focus  *)
(* request may answer (FocusInv).                                          *)
(***************************************************************************)
EXTENDS WindowFocus, SequenceTheorems, TLAPS

Calls == [at : CallSteps, window : Windows \cup {None}, other : BOOLEAN,
          late : BOOLEAN, startedLate : BOOLEAN, queries : 0..MaxQueries,
          stale : BOOLEAN, missed : BOOLEAN,
          last : Windows \cup {None}, ok : BOOLEAN]

LEMMA CallType == TypeOK <=> /\ ScriptTypeOK
                             /\ call \in [Callers -> Calls]
                             /\ seen \in [Callers -> BOOLEAN] /\ landed \in [Callers -> BOOLEAN]
BY DEF TypeOK, Calls

(* What a transaction leaves behind, while it runs and after. *)
LeftBehind ==
    /\ \A t \in objects : At(t, Steps \ {"done"}) /\ tx[t].owns
    /\ \A t \in files : At(t, Steps \ {"done"}) /\ tx[t].path
    /\ \A t \in Scripts :
        t \in loaded \/ Asked(t, "load") =>
            \/ Asked(t, "unload")
            \/ At(t, {"load", "loaded", "start", "poll"}) /\ tx[t].owns
    /\ \A t \in DOMAIN tx : tx[t].at \in {"resolve", "prepare"} => ~tx[t].owns /\ ~tx[t].path

ScriptInv == ScriptTypeOK /\ LeftBehind

LEMMA ScriptInitInv == ScriptInit => ScriptInv
BY ScriptAssumption DEF ScriptInit, ScriptInv, ScriptTypeOK, LeftBehind, Asked, At, Known, Scripts

(* Cleaning up leaves no file and no object that is not on record, and no script in
   KWin without a request to unload it. *)
LEMMA CleanUpInv ==
    ASSUME ScriptInv, NEW t \in DOMAIN tx, NEW r \in Transactions, CleanUp(t, r),
           tx[t].owns => r.owns,
           objects' = objects \/ (objects' = objects \cup {t} /\ r.owns),
           files' = files \/ (files' = files \cup {t} /\ r.path),
           t \in files => r.path, t \in objects => r.owns,
           UNCHANGED <<scripts, pluginVars, desktopVars>>
    PROVE  ScriptInv'
  <1> USE DEF ScriptInv
  <1>1. /\ tx' \in [DOMAIN tx -> Transactions] /\ DOMAIN tx' = DOMAIN tx
        /\ tx'[t].at \in {"unload", "remove"}
        /\ tx'[t].owns = r.owns /\ tx'[t].path = r.path
        /\ \A u \in DOMAIN tx : u # t => tx'[u] = tx[u]
    BY DEF ScriptTypeOK, CleanUp, Transactions, Steps, Awaiting
  <1>2. /\ asked' \subseteq Scripts \X {"load", "start", "unload"}
        /\ asked \subseteq asked'
        /\ r.owns => <<t, "unload">> \in asked'
        /\ \A u : <<u, "load">> \in asked' => <<u, "load">> \in asked
    BY DEF ScriptTypeOK, CleanUp
  <1>3. t \in Scripts
    BY DEF ScriptTypeOK
  <1>4. ScriptTypeOK'
    BY <1>1, <1>2, <1>3 DEF ScriptTypeOK, pluginVars, desktopVars
  <1>5. (\A u \in objects : At(u, Steps \ {"done"}) /\ tx[u].owns)'
    BY <1>1 DEF LeftBehind, At, Known, Steps, Awaiting
  <1>6. (\A u \in files : At(u, Steps \ {"done"}) /\ tx[u].path)'
    BY <1>1 DEF LeftBehind, At, Known, Steps, Awaiting
  <1>7. ASSUME NEW u \in Scripts, (u \in loaded \/ Asked(u, "load"))'
        PROVE  (\/ Asked(u, "unload")
                \/ At(u, {"load", "loaded", "start", "poll"}) /\ tx[u].owns)'
    <2>1. u \in loaded \/ Asked(u, "load")
      BY <1>2, <1>7 DEF Asked, pluginVars
    <2>2. CASE Asked(u, "unload")
      BY <2>2, <1>2 DEF Asked
    <2>3. CASE At(u, {"load", "loaded", "start", "poll"}) /\ tx[u].owns /\ u # t
      BY <2>3, <1>1 DEF At, Known
    <2>4. CASE At(u, {"load", "loaded", "start", "poll"}) /\ tx[u].owns /\ u = t
      BY <2>4, <1>2 DEF Asked
    <2> QED
      BY <2>1, <2>2, <2>3, <2>4 DEF LeftBehind
  <1>8. \A u \in DOMAIN tx' :
            tx'[u].at \in {"resolve", "prepare"} => ~tx'[u].owns /\ ~tx'[u].path
    BY <1>1 DEF LeftBehind
  <1> QED
    BY <1>4, <1>5, <1>6, <1>7, <1>8 DEF LeftBehind

(* A new script has a name that nothing carries. *)
LEMMA BeginInv ==
    ASSUME ScriptInv, NEW c \in Callers, NEW kind \in Kinds,
           NEW window \in Windows \cup {None}, Begin(c, kind, window)
    PROVE  ScriptInv'
  <1> USE DEF ScriptInv
  <1> DEFINE t == <<c, Len(scripts[c]) + 1>>
             kept == {u \in DOMAIN tx : ~(u[1] = c /\ tx[u].at = "done")}
             script == [kind |-> kind, window |-> window]
  <1>1. scripts[c] \in Seq([kind : Kinds, window : Windows \cup {None}]) /\ Len(scripts[c]) \in Nat
    <2>1. scripts[c] \in Seq([kind : Kinds, window : Windows \cup {None}])
      BY DEF ScriptTypeOK
    <2> QED
      BY <2>1, LenProperties
  <1>2. /\ t \in Scripts /\ t \notin DOMAIN tx
        /\ t[1] = c /\ t[2] = Len(scripts[c]) + 1
    BY <1>1, ScriptAssumption DEF Begin, Scripts, ScriptTypeOK
  <1>3. /\ tx' = [u \in kept \cup {t} |-> IF u = t THEN New ELSE tx[u]]
        /\ scripts' = [scripts EXCEPT ![c] = Append(@, script)]
        /\ Len(scripts[c]) < MaxScripts
        /\ UNCHANGED <<objects, files, asked, loaded, waiting, started, open, active>>
    BY DEF Begin, kwinVars, pluginVars, desktopVars
  <1>4. New \in Transactions
    BY DEF New, Transactions, Nothing, Answers, Steps, Awaiting
  <1>5. /\ tx' \in [DOMAIN tx' -> Transactions] /\ DOMAIN tx' = kept \cup {t}
        /\ \A u \in kept : tx'[u] = tx[u]
    BY <1>2, <1>3, <1>4 DEF ScriptTypeOK
  <1>6. /\ scripts' \in [Callers -> Seq([kind : Kinds, window : Windows \cup {None}])]
        /\ \A d \in Callers : Len(scripts'[d]) = IF d = c THEN Len(scripts[c]) + 1 ELSE Len(scripts[d])
    <2>1. script \in [kind : Kinds, window : Windows \cup {None}]
      OBVIOUS
    <2>2. /\ Append(scripts[c], script) \in Seq([kind : Kinds, window : Windows \cup {None}])
          /\ Len(Append(scripts[c], script)) = Len(scripts[c]) + 1
      BY <1>1, <2>1, AppendProperties
    <2> HIDE DEF script
    <2> QED
      BY <1>3, <2>2 DEF ScriptTypeOK
  <1>7. ScriptTypeOK'
    <2>1. (\A d \in Callers : Len(scripts[d]) <= MaxScripts)'
      BY <1>1, <1>3, <1>6, ScriptAssumption DEF ScriptTypeOK
    <2>2. DOMAIN tx' \subseteq {u \in Scripts : u[2] <= Len(scripts'[u[1]])}
      <3>1. ASSUME NEW u \in kept PROVE u \in Scripts /\ u[2] <= Len(scripts'[u[1]])
        <4>1. u \in Scripts /\ u[2] <= Len(scripts[u[1]])
          BY DEF ScriptTypeOK
        <4>2. u[1] \in Callers /\ u[2] \in Nat
          BY <4>1, ScriptAssumption DEF Scripts
        <4>3. Len(scripts[u[1]]) \in Nat
          BY <4>2 DEF ScriptTypeOK
        <4> QED
          BY <4>1, <4>2, <4>3, <1>1, <1>6
      <3>2. t[2] <= Len(scripts'[t[1]])
        BY <1>1, <1>2, <1>6
      <3> QED
        BY <3>1, <3>2, <1>2, <1>5
    <2> QED
      BY <1>3, <1>5, <1>6, <2>1, <2>2 DEF ScriptTypeOK
  <1>8. \A u \in Scripts : At(u, Steps \ {"done"}) => u \in kept
    BY DEF At, Known
  <1>9. \A u \in kept : tx'[u] = tx[u] /\ u \in DOMAIN tx'
    BY <1>5
  <1>10. LeftBehind'
    <2>1. (\A u \in objects : At(u, Steps \ {"done"}) /\ tx[u].owns)'
      BY <1>3, <1>8, <1>9 DEF LeftBehind, At, Known, ScriptTypeOK
    <2>2. (\A u \in files : At(u, Steps \ {"done"}) /\ tx[u].path)'
      BY <1>3, <1>8, <1>9 DEF LeftBehind, At, Known, ScriptTypeOK
    <2>3. ASSUME NEW u \in Scripts, (u \in loaded \/ Asked(u, "load"))'
          PROVE  (\/ Asked(u, "unload")
                  \/ At(u, {"load", "loaded", "start", "poll"}) /\ tx[u].owns)'
      <3>1. \/ Asked(u, "unload")
            \/ At(u, {"load", "loaded", "start", "poll"}) /\ tx[u].owns
        BY <1>3, <2>3 DEF LeftBehind, Asked
      <3>2. CASE Asked(u, "unload")
        BY <3>2, <1>3 DEF Asked
      <3>3. CASE At(u, {"load", "loaded", "start", "poll"}) /\ tx[u].owns
        <4>1. u \in kept
          BY <3>3, <1>8 DEF At, Known, Steps, Awaiting
        <4> QED
          BY <4>1, <3>3, <1>9 DEF At, Known
      <3> QED
        BY <3>1, <3>2, <3>3
    <2>4. \A u \in DOMAIN tx' :
            tx'[u].at \in {"resolve", "prepare"} => ~tx'[u].owns /\ ~tx'[u].path
      <3>1. tx'[t] = New
        BY <1>3
      <3> QED
        BY <3>1, <1>5 DEF LeftBehind, New
    <2> QED
      BY <2>1, <2>2, <2>3, <2>4 DEF LeftBehind
  <1> QED
    BY <1>7, <1>10

(* A step that moves transaction t from one point to another and changes nothing it has
   put in place, what was asked of KWin or what is in KWin, but for more to start. *)
LEMMA MoveInv ==
    ASSUME ScriptInv, NEW t \in DOMAIN tx, NEW r \in Transactions,
           tx' = [tx EXCEPT ![t] = r],
           r.owns = tx[t].owns, r.path = tx[t].path, r.at # "done",
           r.at \in {"resolve", "prepare"} => tx[t].at \in {"resolve", "prepare"},
           tx[t].at \in {"load", "loaded", "start", "poll"} =>
                r.at \in {"load", "loaded", "start", "poll"},
           asked' \subseteq Scripts \X {"load", "start", "unload"},
           \A u \in Scripts : /\ <<u, "load">> \in asked' => <<u, "load">> \in asked
                              /\ <<u, "unload">> \in asked => <<u, "unload">> \in asked',
           started' \subseteq loaded, waiting' \subseteq loaded,
           UNCHANGED <<scripts, objects, files, loaded>>,
           open' \subseteq Windows, active' \in open' \cup {None}
    PROVE  ScriptInv'
  <1> USE DEF ScriptInv
  <1>1. /\ tx' \in [DOMAIN tx -> Transactions] /\ DOMAIN tx' = DOMAIN tx
        /\ tx'[t] = r
        /\ \A u \in DOMAIN tx : u # t => tx'[u] = tx[u]
    BY DEF ScriptTypeOK
  <1>2. ScriptTypeOK'
    BY <1>1 DEF ScriptTypeOK
  <1>3. r.at \in Steps \ {"done"}
    BY DEF Transactions
  <1>4. (\A u \in objects : At(u, Steps \ {"done"}) /\ tx[u].owns)'
    BY <1>1, <1>3 DEF LeftBehind, At, Known
  <1>5. (\A u \in files : At(u, Steps \ {"done"}) /\ tx[u].path)'
    BY <1>1, <1>3 DEF LeftBehind, At, Known
  <1>6. ASSUME NEW u \in Scripts, (u \in loaded \/ Asked(u, "load"))'
        PROVE  (\/ Asked(u, "unload")
                \/ At(u, {"load", "loaded", "start", "poll"}) /\ tx[u].owns)'
    <2>1. \/ Asked(u, "unload")
          \/ At(u, {"load", "loaded", "start", "poll"}) /\ tx[u].owns
      BY <1>6 DEF LeftBehind, Asked
    <2>2. CASE Asked(u, "unload")
      BY <2>2 DEF Asked
    <2>3. CASE At(u, {"load", "loaded", "start", "poll"}) /\ tx[u].owns
      BY <2>3, <1>1 DEF At, Known
    <2> QED
      BY <2>1, <2>2, <2>3
  <1>7. \A u \in DOMAIN tx' :
            tx'[u].at \in {"resolve", "prepare"} => ~tx'[u].owns /\ ~tx'[u].path
    BY <1>1 DEF LeftBehind
  <1> QED
    BY <1>2, <1>4, <1>5, <1>6, <1>7 DEF LeftBehind

(* A step that leaves the transactions alone. *)
LEMMA StillInv ==
    ASSUME ScriptInv, UNCHANGED <<scripts, tx, objects, files>>,
           loaded' \subseteq loaded, waiting' \subseteq loaded', started' \subseteq loaded',
           asked' \subseteq Scripts \X {"load", "start", "unload"},
           \A u \in Scripts : /\ <<u, "load">> \in asked' => <<u, "load">> \in asked
                              /\ <<u, "unload">> \in asked /\ u \in loaded' =>
                                    <<u, "unload">> \in asked'
                              /\ <<u, "unload">> \in asked /\ <<u, "load">> \in asked' =>
                                    <<u, "unload">> \in asked',
           open' \subseteq Windows, active' \in open' \cup {None}
    PROVE  ScriptInv'
  <1>1. ScriptTypeOK'
    BY DEF ScriptInv, ScriptTypeOK
  <1>2. LeftBehind'
    BY DEF ScriptInv, LeftBehind, At, Known, Asked
  <1> QED
    BY <1>1, <1>2 DEF ScriptInv

LEMMA AtType ==
    ASSUME ScriptInv, NEW t, NEW S, At(t, S)
    PROVE  t \in DOMAIN tx /\ t \in Scripts /\ tx[t] \in Transactions /\ tx[t].at \in S
BY DEF ScriptInv, ScriptTypeOK, At, Known

LEMMA NothingType == Nothing \in Answers
BY DEF Nothing, Answers

(* The steps of a transaction, one by one. *)
LEMMA TransactInv ==
    ASSUME ScriptInv, NEW t \in Scripts, Transact(t) \/ Drop(t)
    PROVE  ScriptInv'
  <1> USE DEF kwinVars, pluginVars, desktopVars
  <1>0. /\ asked \subseteq Scripts \X {"load", "start", "unload"}
        /\ started \subseteq loaded /\ waiting \subseteq loaded
        /\ open \subseteq Windows /\ active \in open \cup {None}
    BY DEF ScriptInv, ScriptTypeOK
  <1>1. ASSUME Resolve(t) PROVE ScriptInv'
    <2> DEFINE r == [tx[t] EXCEPT !.at = "prepare", !.current = TRUE]
    <2>1. /\ t \in DOMAIN tx /\ tx[t] \in Transactions /\ tx[t].at = "resolve"
      BY <1>1, AtType DEF Resolve
    <2>2. /\ r \in Transactions /\ r.owns = tx[t].owns /\ r.path = tx[t].path
          /\ r.at = "prepare"
      BY <2>1 DEF Transactions, Steps, Awaiting
    <2>3. tx' = [tx EXCEPT ![t] = r]
      BY <1>1, <2>1 DEF Resolve, ScriptInv, ScriptTypeOK
    <2> HIDE DEF r
    <2> QED
      BY <1>0, <1>1, <2>1, <2>2, <2>3, MoveInv DEF Resolve
  <1>2. ASSUME Prepare(t) PROVE ScriptInv'
    <2> DEFINE r == [tx[t] EXCEPT !.at = "load", !.owns = TRUE, !.path = TRUE]
    <2>1. t \in DOMAIN tx /\ tx[t] \in Transactions
      BY <1>2, AtType DEF Prepare
    <2>2. r \in Transactions /\ r.owns /\ r.path /\ r.at = "load"
      BY <2>1 DEF Transactions, Steps, Awaiting
    <2>3. tx' = [tx EXCEPT ![t] = r]
      BY <1>2, <2>1 DEF Prepare, ScriptInv, ScriptTypeOK
    <2> HIDE DEF r
    <2>4. /\ tx' \in [DOMAIN tx -> Transactions] /\ DOMAIN tx' = DOMAIN tx /\ tx'[t] = r
          /\ \A u \in DOMAIN tx : u # t => tx'[u] = tx[u]
      BY <2>1, <2>2, <2>3 DEF ScriptInv, ScriptTypeOK
    <2>5. /\ objects' = objects \cup {t} /\ files' = files \cup {t}
          /\ asked' = asked \cup {<<t, "load">>}
          /\ UNCHANGED <<scripts, loaded, waiting, started, open, active>>
      BY <1>2 DEF Prepare
    <2>6. <<t, "load">> \in Scripts \X {"load", "start", "unload"}
      OBVIOUS
    <2>7. ScriptTypeOK'
      BY <2>4, <2>5, <2>6 DEF ScriptInv, ScriptTypeOK
    <2>8. (\A u \in objects : At(u, Steps \ {"done"}) /\ tx[u].owns)'
      BY <2>1, <2>2, <2>4, <2>5 DEF ScriptInv, LeftBehind, At, Known, Steps, Awaiting
    <2>9. (\A u \in files : At(u, Steps \ {"done"}) /\ tx[u].path)'
      BY <2>1, <2>2, <2>4, <2>5 DEF ScriptInv, LeftBehind, At, Known, Steps, Awaiting
    <2>10. ASSUME NEW u \in Scripts, (u \in loaded \/ Asked(u, "load"))'
           PROVE  (\/ Asked(u, "unload")
                   \/ At(u, {"load", "loaded", "start", "poll"}) /\ tx[u].owns)'
      <3>1. CASE u = t
        BY <3>1, <2>1, <2>2, <2>4 DEF At, Known
      <3>2. CASE u # t
        BY <3>2, <2>10, <2>4, <2>5 DEF ScriptInv, LeftBehind, At, Known, Asked
      <3> QED
        BY <3>1, <3>2
    <2>11. \A u \in DOMAIN tx' :
            tx'[u].at \in {"resolve", "prepare"} => ~tx'[u].owns /\ ~tx'[u].path
      BY <2>2, <2>4 DEF ScriptInv, LeftBehind
    <2> QED
      BY <2>7, <2>8, <2>9, <2>10, <2>11 DEF ScriptInv, LeftBehind
  <1>3. ASSUME PrepareFails(t) PROVE ScriptInv'
    <2>1. /\ t \in DOMAIN tx /\ tx[t] \in Transactions /\ tx[t].at = "prepare"
      BY <1>3, AtType DEF PrepareFails
    <2>2. PICK wrote \in BOOLEAN :
            /\ files' = IF wrote THEN files \cup {t} ELSE files
            /\ CleanUp(t, [tx[t] EXCEPT !.owns = TRUE, !.path = wrote])
      BY <1>3 DEF PrepareFails
    <2> DEFINE r == [tx[t] EXCEPT !.owns = TRUE, !.path = wrote]
    <2>3. r \in Transactions /\ r.owns /\ r.path = wrote
      BY <2>1 DEF Transactions
    <2>4. t \notin files /\ t \notin objects
      BY <2>1 DEF ScriptInv, LeftBehind
    <2>5. CleanUp(t, r)
      BY <2>2
    <2> HIDE DEF r
    <2>6. /\ objects' = objects \cup {t}
          /\ UNCHANGED <<scripts, pluginVars, desktopVars>>
      BY <1>3 DEF PrepareFails
    <2> QED
      BY <2>1, <2>2, <2>3, <2>4, <2>5, <2>6, CleanUpInv
  <1>4. ASSUME Start(t) PROVE ScriptInv'
    <2> DEFINE r == [tx[t] EXCEPT !.at = "start"]
    <2>1. /\ t \in DOMAIN tx /\ tx[t] \in Transactions /\ tx[t].at = "loaded"
      BY <1>4, AtType DEF Start
    <2>2. /\ r \in Transactions /\ r.owns = tx[t].owns /\ r.path = tx[t].path
          /\ r.at = "start"
      BY <2>1 DEF Transactions, Steps, Awaiting
    <2>3. tx' = [tx EXCEPT ![t] = r]
      BY <1>4, <2>1 DEF Start, ScriptInv, ScriptTypeOK
    <2> HIDE DEF r
    <2>4. /\ asked' = asked \cup {<<t, "start">>}
          /\ UNCHANGED <<scripts, objects, files, loaded, waiting, started, open, active>>
      BY <1>4 DEF Start
    <2>5. asked' \subseteq Scripts \X {"load", "start", "unload"}
      BY <1>0, <2>4
    <2>6. \A u \in Scripts : /\ <<u, "load">> \in asked' => <<u, "load">> \in asked
                             /\ <<u, "unload">> \in asked => <<u, "unload">> \in asked'
      BY <2>4
    <2> QED
      BY <1>0, <2>1, <2>2, <2>3, <2>4, <2>5, <2>6, MoveInv
  <1>5. ASSUME Receive(t) PROVE ScriptInv'
    <2>1. t \in DOMAIN tx /\ tx[t] \in Transactions
      BY <1>5, AtType DEF Receive
    <2> QED
      BY <1>5, <2>1, CleanUpInv DEF Receive, ScriptInv, LeftBehind
  <1>6. ASSUME Fail(t) PROVE ScriptInv'
    <2> DEFINE r == [tx[t] EXCEPT !.answer = Nothing]
    <2>1. t \in DOMAIN tx /\ tx[t] \in Transactions
      BY <1>6, AtType DEF Fail
    <2>2. /\ r \in Transactions /\ r.owns = tx[t].owns /\ r.path = tx[t].path
          /\ CleanUp(t, r)
      BY <1>6, <2>1, NothingType DEF Fail, Transactions
    <2> HIDE DEF r
    <2>3. UNCHANGED <<scripts, objects, files, pluginVars, desktopVars>>
      BY <1>6 DEF Fail
    <2> QED
      BY <2>1, <2>2, <2>3, CleanUpInv DEF ScriptInv, LeftBehind
  <1>7. ASSUME Drop(t) PROVE ScriptInv'
    <2> DEFINE r == [tx[t] EXCEPT !.dropped = TRUE, !.answer = Nothing]
    <2>1. t \in DOMAIN tx /\ tx[t] \in Transactions
      BY <1>7, AtType DEF Drop
    <2>2. /\ r \in Transactions /\ r.owns = tx[t].owns /\ r.path = tx[t].path
          /\ CleanUp(t, r)
      BY <1>7, <2>1, NothingType DEF Drop, Transactions
    <2> HIDE DEF r
    <2>3. UNCHANGED <<scripts, objects, files, pluginVars, desktopVars>>
      BY <1>7 DEF Drop
    <2> QED
      BY <2>1, <2>2, <2>3, CleanUpInv DEF ScriptInv, LeftBehind
  <1>8. ASSUME GiveUpUnload(t) PROVE ScriptInv'
    <2> DEFINE r == [tx[t] EXCEPT !.at = "remove"]
    <2>1. /\ t \in DOMAIN tx /\ tx[t] \in Transactions /\ tx[t].at = "unload"
      BY <1>8, AtType DEF GiveUpUnload
    <2>2. /\ r \in Transactions /\ r.owns = tx[t].owns /\ r.path = tx[t].path
          /\ r.at = "remove"
      BY <2>1 DEF Transactions, Steps, Awaiting
    <2>3. tx' = [tx EXCEPT ![t] = r]
      BY <1>8, <2>1 DEF GiveUpUnload, ScriptInv, ScriptTypeOK
    <2> HIDE DEF r
    <2> QED
      BY <1>0, <1>8, <2>1, <2>2, <2>3, MoveInv DEF GiveUpUnload
  <1>9. ASSUME Remove(t) PROVE ScriptInv'
    <2> DEFINE r == [tx[t] EXCEPT !.at = "done"]
    <2>1. /\ t \in DOMAIN tx /\ tx[t] \in Transactions /\ tx[t].at = "remove"
      BY <1>9, AtType DEF Remove
    <2>2. r \in Transactions /\ r.at = "done"
      BY <2>1 DEF Transactions, Steps, Awaiting
    <2>3. /\ tx' = Without(t) \/ tx' = [tx EXCEPT ![t] = r]
          /\ UNCHANGED <<scripts, asked, loaded, waiting, started, open, active>>
      BY <1>9, <2>1 DEF Remove, ScriptInv, ScriptTypeOK
    <2> HIDE DEF r
    <2>4. t \notin objects' /\ t \notin files' /\ objects' \subseteq objects /\ files' \subseteq files
      BY <1>9, <2>1 DEF Remove, ScriptInv, LeftBehind
    <2>5. /\ tx' \in [DOMAIN tx' -> Transactions] /\ DOMAIN tx' \subseteq DOMAIN tx
          /\ \A u \in DOMAIN tx : u # t => u \in DOMAIN tx' /\ tx'[u] = tx[u]
          /\ t \in DOMAIN tx' => tx'[t] = r
      <3>1. CASE tx' = Without(t)
        BY <3>1 DEF Without, ScriptInv, ScriptTypeOK
      <3>2. CASE tx' = [tx EXCEPT ![t] = r]
        BY <3>2, <2>1, <2>2 DEF ScriptInv, ScriptTypeOK
      <3> QED
        BY <2>3, <3>1, <3>2
    <2>6. ScriptTypeOK'
      BY <2>3, <2>4, <2>5 DEF ScriptInv, ScriptTypeOK
    <2>7. (\A u \in objects : At(u, Steps \ {"done"}) /\ tx[u].owns)'
      BY <2>4, <2>5 DEF ScriptInv, LeftBehind, At, Known
    <2>8. (\A u \in files : At(u, Steps \ {"done"}) /\ tx[u].path)'
      BY <2>4, <2>5 DEF ScriptInv, LeftBehind, At, Known
    <2>9. ASSUME NEW u \in Scripts, (u \in loaded \/ Asked(u, "load"))'
          PROVE  (\/ Asked(u, "unload")
                  \/ At(u, {"load", "loaded", "start", "poll"}) /\ tx[u].owns)'
      <3>1. \/ Asked(u, "unload")
            \/ At(u, {"load", "loaded", "start", "poll"}) /\ tx[u].owns
        BY <2>3, <2>9 DEF ScriptInv, LeftBehind, Asked
      <3>2. CASE Asked(u, "unload")
        BY <3>2, <2>3 DEF Asked
      <3>3. CASE At(u, {"load", "loaded", "start", "poll"}) /\ tx[u].owns
        <4>1. u # t
          BY <3>3, <2>1 DEF At, Known
        <4> QED
          BY <4>1, <3>3, <2>5 DEF At, Known
      <3> QED
        BY <3>1, <3>2, <3>3
    <2>10. \A u \in DOMAIN tx' :
            tx'[u].at \in {"resolve", "prepare"} => ~tx'[u].owns /\ ~tx'[u].path
      BY <2>2, <2>5 DEF ScriptInv, LeftBehind
    <2> QED
      BY <2>6, <2>7, <2>8, <2>9, <2>10 DEF ScriptInv, LeftBehind
  <1> QED
    BY <1>1, <1>2, <1>3, <1>4, <1>5, <1>6, <1>7, <1>8, <1>9 DEF Transact

(* KWin loads, starts, runs and unloads scripts, and is replaced. *)
LEMMA KwinInv ==
    ASSUME ScriptInv, Kwin
    PROVE  ScriptInv'
  <1> USE DEF kwinVars, pluginVars, desktopVars
  <1>0. /\ asked \subseteq Scripts \X {"load", "start", "unload"}
        /\ started \subseteq loaded /\ waiting \subseteq loaded
        /\ open \subseteq Windows /\ active \in open \cup {None}
        /\ tx \in [DOMAIN tx -> Transactions]
    BY DEF ScriptInv, ScriptTypeOK
  <1>1. ASSUME NEW t \in Scripts, KwinLoads(t) PROVE ScriptInv'
    <2> DEFINE r == [tx[t] EXCEPT !.at = "loaded"]
    <2>1. /\ <<t, "load">> \in asked
          /\ asked' = asked \ {<<t, "load">>}
          /\ loaded' = loaded \cup {t} /\ waiting' = waiting \cup {t}
          /\ UNCHANGED <<scripts, objects, files, started, open, active>>
      BY <1>1 DEF KwinLoads, Asked
    <2>2. /\ tx' \in [DOMAIN tx -> Transactions] /\ DOMAIN tx' = DOMAIN tx
          /\ \A u \in DOMAIN tx : /\ tx'[u].owns = tx[u].owns /\ tx'[u].path = tx[u].path
                                  /\ \/ tx'[u].at = tx[u].at
                                     \/ tx[u].at = "load" /\ tx'[u].at = "loaded"
      <3>1. CASE At(t, {"load"})
        <4>1. t \in DOMAIN tx /\ tx[t] \in Transactions /\ tx[t].at = "load"
          BY <3>1, AtType
        <4>2. /\ r \in Transactions /\ r.owns = tx[t].owns /\ r.path = tx[t].path
              /\ r.at = "loaded"
          BY <4>1 DEF Transactions, Steps, Awaiting
        <4>3. tx' = [tx EXCEPT ![t] = r]
          BY <1>1, <3>1, <4>1, <1>0 DEF KwinLoads
        <4> HIDE DEF r
        <4> QED
          BY <4>1, <4>2, <4>3, <1>0
      <3>2. CASE ~At(t, {"load"})
        BY <3>2, <1>1, <1>0 DEF KwinLoads
      <3> QED
        BY <3>1, <3>2
    <2>3. ScriptTypeOK'
      BY <2>1, <2>2 DEF ScriptInv, ScriptTypeOK
    <2>4. (\A u \in objects : At(u, Steps \ {"done"}) /\ tx[u].owns)'
      BY <2>1, <2>2 DEF ScriptInv, LeftBehind, At, Known, Steps, Awaiting
    <2>5. (\A u \in files : At(u, Steps \ {"done"}) /\ tx[u].path)'
      BY <2>1, <2>2 DEF ScriptInv, LeftBehind, At, Known, Steps, Awaiting
    <2>6. ASSUME NEW u \in Scripts, (u \in loaded \/ Asked(u, "load"))'
          PROVE  (\/ Asked(u, "unload")
                  \/ At(u, {"load", "loaded", "start", "poll"}) /\ tx[u].owns)'
      <3>1. u \in loaded \/ Asked(u, "load")
        BY <2>1, <2>6 DEF Asked
      <3>2. \/ Asked(u, "unload")
            \/ At(u, {"load", "loaded", "start", "poll"}) /\ tx[u].owns
        BY <3>1 DEF ScriptInv, LeftBehind
      <3>3. CASE Asked(u, "unload")
        BY <3>3, <2>1 DEF Asked
      <3>4. CASE At(u, {"load", "loaded", "start", "poll"}) /\ tx[u].owns
        BY <3>4, <2>2 DEF At, Known
      <3> QED
        BY <3>2, <3>3, <3>4
    <2>7. \A u \in DOMAIN tx' :
            tx'[u].at \in {"resolve", "prepare"} => ~tx'[u].owns /\ ~tx'[u].path
      BY <2>2 DEF ScriptInv, LeftBehind
    <2> QED
      BY <2>3, <2>4, <2>5, <2>6, <2>7 DEF ScriptInv, LeftBehind
  <1>2. ASSUME NEW t \in Scripts, KwinStarts(t) PROVE ScriptInv'
    <2> DEFINE r == [tx[t] EXCEPT !.at = "poll"]
    <2>1. /\ asked' = asked \ {<<t, "start">>}
          /\ started' = started \cup waiting /\ waiting' = {}
          /\ UNCHANGED <<scripts, objects, files, loaded, open, active>>
      BY <1>2 DEF KwinStarts
    <2>2. /\ asked' \subseteq Scripts \X {"load", "start", "unload"}
          /\ \A u \in Scripts : /\ <<u, "load">> \in asked' => <<u, "load">> \in asked
                                /\ <<u, "unload">> \in asked => <<u, "unload">> \in asked'
      BY <1>0, <2>1
    <2>3. CASE At(t, {"start"})
      <3>1. t \in DOMAIN tx /\ tx[t] \in Transactions /\ tx[t].at = "start"
        BY <2>3, AtType
      <3>2. /\ r \in Transactions /\ r.owns = tx[t].owns /\ r.path = tx[t].path
            /\ r.at = "poll"
        BY <3>1 DEF Transactions, Steps, Awaiting
      <3>3. tx' = [tx EXCEPT ![t] = r]
        BY <1>2, <2>3, <3>1, <1>0 DEF KwinStarts
      <3> HIDE DEF r
      <3> QED
        BY <1>0, <2>1, <2>2, <3>1, <3>2, <3>3, MoveInv
    <2>4. CASE ~At(t, {"start"})
      <3>1. tx' = tx
        BY <2>4, <1>2 DEF KwinStarts
      <3> QED
        BY <1>0, <2>1, <2>2, <3>1, StillInv
    <2> QED
      BY <2>3, <2>4
  <1>3. ASSUME NEW t \in Scripts, KwinUnloads(t) PROVE ScriptInv'
    <2> DEFINE r == [tx[t] EXCEPT !.at = "remove"]
    <2>1. /\ asked' = asked \ {<<t, "unload">>} /\ <<t, "load">> \notin asked
          /\ loaded' = loaded \ {t} /\ waiting' = waiting \ {t} /\ started' = started \ {t}
          /\ UNCHANGED <<scripts, objects, files, open, active>>
      BY <1>3 DEF KwinUnloads, Asked
    <2>2. /\ tx' \in [DOMAIN tx -> Transactions] /\ DOMAIN tx' = DOMAIN tx
          /\ \A u \in DOMAIN tx : /\ tx'[u].owns = tx[u].owns /\ tx'[u].path = tx[u].path
                                  /\ \/ tx'[u].at = tx[u].at
                                     \/ tx[u].at = "unload" /\ tx'[u].at = "remove"
      <3>1. CASE At(t, {"unload"})
        <4>1. t \in DOMAIN tx /\ tx[t] \in Transactions /\ tx[t].at = "unload"
          BY <3>1, AtType
        <4>2. /\ r \in Transactions /\ r.owns = tx[t].owns /\ r.path = tx[t].path
              /\ r.at = "remove"
          BY <4>1 DEF Transactions, Steps, Awaiting
        <4>3. tx' = [tx EXCEPT ![t] = r]
          BY <1>3, <3>1, <4>1, <1>0 DEF KwinUnloads
        <4> HIDE DEF r
        <4> QED
          BY <4>1, <4>2, <4>3, <1>0
      <3>2. CASE ~At(t, {"unload"})
        BY <3>2, <1>3, <1>0 DEF KwinUnloads
      <3> QED
        BY <3>1, <3>2
    <2>3. ScriptTypeOK'
      BY <1>0, <2>1, <2>2 DEF ScriptInv, ScriptTypeOK
    <2>4. (\A u \in objects : At(u, Steps \ {"done"}) /\ tx[u].owns)'
      BY <2>1, <2>2 DEF ScriptInv, LeftBehind, At, Known, Steps, Awaiting
    <2>5. (\A u \in files : At(u, Steps \ {"done"}) /\ tx[u].path)'
      BY <2>1, <2>2 DEF ScriptInv, LeftBehind, At, Known, Steps, Awaiting
    <2>6. ASSUME NEW u \in Scripts, (u \in loaded \/ Asked(u, "load"))'
          PROVE  (\/ Asked(u, "unload")
                  \/ At(u, {"load", "loaded", "start", "poll"}) /\ tx[u].owns)'
      <3>1. (u \in loaded \/ Asked(u, "load")) /\ u # t
        BY <2>1, <2>6 DEF Asked
      <3>2. \/ Asked(u, "unload")
            \/ At(u, {"load", "loaded", "start", "poll"}) /\ tx[u].owns
        BY <3>1 DEF ScriptInv, LeftBehind
      <3>3. CASE Asked(u, "unload")
        BY <3>1, <3>3, <2>1 DEF Asked
      <3>4. CASE At(u, {"load", "loaded", "start", "poll"}) /\ tx[u].owns
        BY <3>4, <2>2 DEF At, Known
      <3> QED
        BY <3>2, <3>3, <3>4
    <2>7. \A u \in DOMAIN tx' :
            tx'[u].at \in {"resolve", "prepare"} => ~tx'[u].owns /\ ~tx'[u].path
      BY <2>2 DEF ScriptInv, LeftBehind
    <2> QED
      BY <2>3, <2>4, <2>5, <2>6, <2>7 DEF ScriptInv, LeftBehind
  <1>4. ASSUME NEW t \in Scripts, Run(t) PROVE ScriptInv'
    <2>1. /\ started' = started \ {t}
          /\ UNCHANGED <<scripts, objects, files, asked, loaded, waiting, open>>
      BY <1>4 DEF Run
    <2>2. active' \in open \cup {None}
      BY <1>0, <1>4 DEF Run, ListWindows, ActivateWindow
    <2>3. \E a \in Answers : Callback(t, a)
      <3>1. CASE ListWindows(t)
        <4>1. [ok |-> TRUE, open |-> open, active |-> active] \in Answers
          BY <1>0 DEF Answers
        <4> QED
          BY <3>1, <4>1 DEF ListWindows
      <3>2. CASE ActivateWindow(t)
        <4> DEFINE there == Says(t).window \in open
        <4>1. there \in BOOLEAN
          OBVIOUS
        <4>2. Callback(t, [Nothing EXCEPT !.ok = there])
          BY <3>2 DEF ActivateWindow
        <4> HIDE DEF there
        <4>3. [Nothing EXCEPT !.ok = there] \in Answers
          BY <4>1 DEF Answers, Nothing
        <4> QED
          BY <4>2, <4>3
      <3> QED
        BY <1>4, <3>1, <3>2 DEF Run
    <2>4. PICK a \in Answers : Callback(t, a)
      BY <2>3
    <2>5. CASE tx' = tx
      BY <1>0, <2>1, <2>2, <2>5, StillInv
    <2>6. CASE tx' # tx
      <3> DEFINE r == [tx[t] EXCEPT !.delivered = TRUE, !.answer = a]
      <3>1. /\ t \in DOMAIN tx /\ tx[t] \in Transactions /\ tx[t].at \in Awaiting
            /\ tx' = [tx EXCEPT ![t].delivered = TRUE, ![t].answer = a]
        BY <2>4, <2>6, AtType DEF Callback
      <3>2. /\ r \in Transactions /\ r.owns = tx[t].owns /\ r.path = tx[t].path
            /\ r.at = tx[t].at /\ r.at # "done"
        BY <3>1 DEF Transactions, Awaiting
      <3>3. tx' = [tx EXCEPT ![t] = r]
        BY <3>1, <1>0
      <3> HIDE DEF r
      <3> QED
        BY <1>0, <2>1, <2>2, <3>1, <3>2, <3>3, MoveInv
    <2> QED
      BY <2>5, <2>6
  <1>5. ASSUME KwinRestarts PROVE ScriptInv'
    <2>1. /\ tx' = [t \in DOMAIN tx |-> [tx[t] EXCEPT !.current = FALSE]]
          /\ asked' = {} /\ loaded' = {} /\ waiting' = {} /\ started' = {}
          /\ UNCHANGED <<scripts, objects, files, open, active>>
      BY <1>5 DEF KwinRestarts
    <2>2. \A t \in DOMAIN tx :
            LET r == [tx[t] EXCEPT !.current = FALSE] IN
            /\ r \in Transactions /\ r.owns = tx[t].owns /\ r.path = tx[t].path
            /\ r.at = tx[t].at
      BY <1>0 DEF Transactions
    <2>3. /\ tx' \in [DOMAIN tx -> Transactions] /\ DOMAIN tx' = DOMAIN tx
          /\ \A u \in DOMAIN tx : /\ tx'[u].owns = tx[u].owns /\ tx'[u].path = tx[u].path
                                  /\ tx'[u].at = tx[u].at
      BY <2>1, <2>2
    <2>4. ScriptTypeOK'
      BY <1>0, <2>1, <2>3 DEF ScriptInv, ScriptTypeOK
    <2> QED
      BY <2>1, <2>3, <2>4 DEF ScriptInv, LeftBehind, At, Known, Asked
  <1> QED
    BY <1>1, <1>2, <1>3, <1>4, <1>5 DEF Kwin

(* What else a call does to the scripts and the desktop. *)
LEMMA UserInv ==
    ASSUME ScriptInv, UserSwitches \/ (\E w \in Windows : WindowCloses(w))
    PROVE  ScriptInv'
  <1>0. /\ asked \subseteq Scripts \X {"load", "start", "unload"}
        /\ started \subseteq loaded /\ waiting \subseteq loaded
        /\ open \subseteq Windows /\ active \in open \cup {None}
    BY DEF ScriptInv, ScriptTypeOK
  <1>1. /\ UNCHANGED <<scripts, tx, objects, files, asked, loaded, waiting, started>>
        /\ open' \subseteq Windows /\ active' \in open' \cup {None}
    BY <1>0 DEF UserSwitches, WindowCloses, kwinVars, pluginVars
  <1> QED
    BY <1>0, <1>1, StillInv

LEMMA ActiveInv ==
    ASSUME ScriptInv, active' \in open,
           UNCHANGED <<scripts, tx, objects, files, kwinVars, open>>
    PROVE  ScriptInv'
  <1>0. /\ asked \subseteq Scripts \X {"load", "start", "unload"}
        /\ started \subseteq loaded /\ waiting \subseteq loaded
        /\ open \subseteq Windows
    BY DEF ScriptInv, ScriptTypeOK
  <1>1. UNCHANGED <<scripts, tx, objects, files, asked, loaded, waiting, started, open>>
    BY DEF kwinVars, pluginVars
  <1> QED
    BY <1>0, <1>1, StillInv

LEMMA UnscriptedInv ==
    ASSUME ScriptInv, UNCHANGED scriptVars
    PROVE  ScriptInv'
  <1>1. UNCHANGED <<scripts, tx, objects, files, asked, loaded, waiting, started, open, active>>
    BY DEF scriptVars, kwinVars, pluginVars, desktopVars
  <1> QED
    BY <1>1, StillInv DEF ScriptInv, ScriptTypeOK

LEMMA CollectedInv ==
    ASSUME ScriptInv, NEW c \in Callers, At(Current(c), {"done"}), Collected(c)
    PROVE  ScriptInv'
  <1> DEFINE t == Current(c)
  <1>1. t \in DOMAIN tx /\ tx[t].at = "done"
    BY AtType
  <1>2. t \notin objects /\ t \notin files
    BY <1>1 DEF ScriptInv, LeftBehind, At, Known
  <1>3. /\ tx' = Without(t)
        /\ UNCHANGED <<scripts, objects, files, asked, loaded, waiting, started, open, active>>
    BY DEF Collected, kwinVars, pluginVars, desktopVars
  <1> HIDE DEF t
  <1>4. /\ tx' \in [DOMAIN tx' -> Transactions] /\ DOMAIN tx' = DOMAIN tx \ {t}
        /\ \A u \in DOMAIN tx : u # t => tx'[u] = tx[u]
    BY <1>3 DEF Without, ScriptInv, ScriptTypeOK
  <1>5. ScriptTypeOK'
    BY <1>3, <1>4 DEF ScriptInv, ScriptTypeOK
  <1>6. (\A u \in objects : At(u, Steps \ {"done"}) /\ tx[u].owns)'
    BY <1>2, <1>3, <1>4 DEF ScriptInv, LeftBehind, At, Known
  <1>7. (\A u \in files : At(u, Steps \ {"done"}) /\ tx[u].path)'
    BY <1>2, <1>3, <1>4 DEF ScriptInv, LeftBehind, At, Known
  <1>8. ASSUME NEW u \in Scripts, (u \in loaded \/ Asked(u, "load"))'
        PROVE  (\/ Asked(u, "unload")
                \/ At(u, {"load", "loaded", "start", "poll"}) /\ tx[u].owns)'
    <2>1. \/ Asked(u, "unload")
          \/ At(u, {"load", "loaded", "start", "poll"}) /\ tx[u].owns
      BY <1>3, <1>8 DEF ScriptInv, LeftBehind, Asked
    <2>2. CASE Asked(u, "unload")
      BY <2>2, <1>3 DEF Asked
    <2>3. CASE At(u, {"load", "loaded", "start", "poll"}) /\ tx[u].owns
      <3>1. u # t
        BY <2>3, <1>1 DEF At, Known
      <3> QED
        BY <3>1, <2>3, <1>4 DEF At, Known
    <2> QED
      BY <2>1, <2>2, <2>3
  <1>9. \A u \in DOMAIN tx' :
            tx'[u].at \in {"resolve", "prepare"} => ~tx'[u].owns /\ ~tx'[u].path
    BY <1>4 DEF ScriptInv, LeftBehind
  <1> QED
    BY <1>5, <1>6, <1>7, <1>8, <1>9 DEF ScriptInv, LeftBehind

-----------------------------------------------------------------------------
(* The calls.  A call that sleeps did not start its last query past the deadline, and
   only such a query may be the last that the bound admits. *)
Bounded(r) ==
    /\ ~r.startedLate => r.queries < MaxQueries
    /\ r.at = "sleeping" => ~r.startedLate

CallInv ==
    /\ call \in [Callers -> Calls]
    /\ \A c \in Callers : Bounded(call[c])

IInv == ScriptInv /\ CallInv /\ seen \in [Callers -> BOOLEAN] /\ landed \in [Callers -> BOOLEAN]

LEMMA Bounds ==
    /\ 0 \in 0..MaxQueries /\ 1 \in 0..MaxQueries /\ 0 < MaxQueries /\ 1 < MaxQueries
    /\ \A n \in 0..MaxQueries : n < MaxQueries => n + 1 \in 0..MaxQueries
BY FocusAssumption

LEMMA SetInv ==
    ASSUME CallInv, NEW c \in Callers, NEW r \in Calls, Bounded(r), Set(c, r)
    PROVE  CallInv'
BY DEF CallInv, Set, Bounded

LEMMA ReturnInv ==
    ASSUME CallInv, NEW c \in Callers, NEW r \in Calls, Return(c, r)
    PROVE  CallInv'
  <1> DEFINE q == [Idle EXCEPT !.at = "done", !.window = r.window, !.last = r.last, !.ok = r.ok,
                               !.missed = r.missed, !.stale = r.stale]
  <1>1. q \in Calls /\ Bounded(q)
    <2>1. Idle \in Calls /\ Idle.queries = 0
      BY Bounds DEF Calls, Idle, CallSteps
    <2>2. /\ r.window \in Windows \cup {None} /\ r.last \in Windows \cup {None}
          /\ r.ok \in BOOLEAN /\ r.missed \in BOOLEAN /\ r.stale \in BOOLEAN
          /\ "done" \in CallSteps
      BY DEF Calls, CallSteps
    <2>3. q \in Calls /\ q.queries = 0 /\ q.at = "done"
      BY <2>1, <2>2 DEF Calls
    <2> QED
      BY <2>3, Bounds DEF Bounded
  <1>2. Set(c, q)
    BY DEF Return
  <1> HIDE DEF q
  <1> QED
    BY <1>1, <1>2, SetInv

LEMMA ConcludeInv ==
    ASSUME CallInv, NEW c \in Callers, NEW r \in Calls, Conclude(c, r)
    PROVE  CallInv'
  <1>1. Satisfies(c, r.window, r.last) \in BOOLEAN
    BY DEF Satisfies
  <1>2. [r EXCEPT !.ok = Satisfies(c, r.window, r.last)] \in Calls
    BY <1>1 DEF Calls
  <1> QED
    BY <1>2, ReturnInv DEF Conclude

LEMMA JudgeInv ==
    ASSUME CallInv, NEW c \in Callers, NEW ok \in BOOLEAN,
           NEW window \in Windows \cup {None}, Judge(c, ok, window)
    PROVE  CallInv'
  <1> DEFINE r == [call[c] EXCEPT !.missed = ~ok, !.stale = window = None,
                                  !.last = IF window = None THEN @ ELSE window]
  <1>1. r \in Calls /\ r.startedLate = call[c].startedLate /\ r.queries = call[c].queries
    BY DEF CallInv, Calls
  <1>2. Heard(c, r)
    BY DEF Judge
  <1>3. Bounded(call[c])
    BY DEF CallInv
  <1> HIDE DEF r
  <1>4. CASE r.last = r.window \/ r.startedLate
    BY <1>1, <1>2, <1>4, ConcludeInv DEF Heard
  <1>5. CASE ~(r.last = r.window \/ r.startedLate)
    <2> DEFINE q == [r EXCEPT !.at = "sleeping"]
    <2>1. q \in Calls /\ Bounded(q)
      BY <1>1, <1>3, <1>5 DEF Calls, Bounded, CallSteps, Verifying
    <2>2. Set(c, q)
      BY <1>2, <1>5 DEF Heard
    <2> HIDE DEF q
    <2> QED
      BY <2>1, <2>2, SetInv
  <1> QED
    BY <1>4, <1>5

LEMMA ScriptedInv ==
    ASSUME ScriptInv, CallInv, NEW c \in Callers, NEW r \in Calls, Bounded(r),
           NEW kind \in Kinds, Scripted(c, kind, r)
    PROVE  ScriptInv' /\ CallInv'
  <1>1. Set(c, r) /\ Begin(c, kind, r.window) /\ r.window \in Windows \cup {None}
    BY DEF Scripted, Calls
  <1> QED
    BY <1>1, SetInv, BeginInv

LEMMA EndedType ==
    ASSUME ScriptInv, CallInv, NEW c \in Callers, NEW at, Ended(c, at)
    PROVE  /\ At(Current(c), {"done"}) /\ Answer(c) \in Answers /\ call[c].at = at
           /\ call[c] \in Calls /\ Bounded(call[c])
  <1>1. At(Current(c), {"done"}) /\ call[c].at = at /\ call[c] \in Calls /\ Bounded(call[c])
    BY DEF Ended, CallInv
  <1>2. tx[Current(c)] \in Transactions
    BY <1>1, AtType
  <1> QED
    BY <1>1, <1>2 DEF Answer, Transactions

LEMMA ResolutionsType ==
    ASSUME NEW c \in Callers, NEW windows \in SUBSET Windows
    PROVE  Resolutions(c, windows) \subseteq Windows
BY DEF Resolutions

(* Dropping the script a call waits for. *)
LEMMA DropInv ==
    ASSUME ScriptInv, NEW t, Drop(t)
    PROVE  ScriptInv'
  <1>1. t \in Scripts
    BY AtType DEF Drop
  <1> QED
    BY <1>1, TransactInv

LEMMA ProceedInv ==
    ASSUME ScriptInv, CallInv, NEW c \in Callers, Proceed(c)
    PROVE  ScriptInv' /\ CallInv'
  <1>0. call[c] \in Calls /\ Bounded(call[c])
    BY DEF CallInv
  <1>k. "windows" \in Kinds /\ "result" \in Kinds
    BY DEF Kinds
  <1>1. CASE StartList(c)
    <2> DEFINE r == [call[c] EXCEPT !.at = "listing"]
    <2>1. r \in Calls /\ Bounded(r)
      BY <1>0 DEF Calls, Bounded, CallSteps
    <2>2. Scripted(c, "windows", r)
      BY <1>1 DEF StartList
    <2> HIDE DEF r
    <2> QED
      BY <1>k, <2>1, <2>2, ScriptedInv
  <1>2. CASE ListedNothing(c)
    <2> DEFINE r == [call[c] EXCEPT !.at = "other_list"]
    <2>1. r \in Calls /\ Bounded(r)
      BY <1>0 DEF Calls, Bounded, CallSteps
    <2>2. Set(c, r) /\ Ended(c, "listing") /\ Collected(c)
      BY <1>2 DEF ListedNothing
    <2> HIDE DEF r
    <2> QED
      BY <2>1, <2>2, SetInv, EndedType, CollectedInv
  <1>3. CASE Listed(c)
    <2>1. Ended(c, "listing") /\ Answer(c) \in Answers
      BY <1>3, EndedType DEF Listed
    <2>2. PICK w \in Resolutions(c, Answer(c).open) :
            Scripted(c, "windows", [call[c] EXCEPT !.at = "looking", !.window = w])
      BY <1>3 DEF Listed
    <2>3. w \in Windows
      BY <2>1, ResolutionsType DEF Answers
    <2> DEFINE r == [call[c] EXCEPT !.at = "looking", !.window = w]
    <2>4. r \in Calls /\ Bounded(r)
      BY <1>0, <2>3 DEF Calls, Bounded, CallSteps
    <2>5. Scripted(c, "windows", r)
      BY <2>2
    <2> HIDE DEF r
    <2> QED
      BY <1>k, <2>4, <2>5, ScriptedInv
  <1>4. CASE Unresolved(c)
    <2>1. Return(c, call[c]) /\ ((Ended(c, "listing") /\ Collected(c)) \/ Unscripted)
      BY <1>4 DEF Unresolved
    <2> QED
      BY <1>0, <2>1, ReturnInv, EndedType, CollectedInv, UnscriptedInv DEF Unscripted
  <1>5. CASE Looked(c)
    <2> DEFINE r == [call[c] EXCEPT !.at = "activating"]
    <2>1. r \in Calls /\ Bounded(r)
      BY <1>0 DEF Calls, Bounded, CallSteps
    <2>2. Scripted(c, "result", r)
      BY <1>5 DEF Looked
    <2> HIDE DEF r
    <2> QED
      BY <1>k, <2>1, <2>2, ScriptedInv
  <1>6. CASE NotActivated(c)
    <2>1. /\ Return(c, call[c]) /\ Collected(c)
          /\ Ended(c, "looking") \/ Ended(c, "activating")
      BY <1>6 DEF NotActivated
    <2> QED
      BY <1>0, <2>1, ReturnInv, EndedType, CollectedInv
  <1>7. CASE Activated(c)
    <2> DEFINE r == [call[c] EXCEPT !.at = "querying", !.queries = 1]
    <2>1. r \in Calls /\ Bounded(r)
      <3>1. "querying" \in CallSteps
        BY DEF CallSteps, Verifying
      <3> QED
        BY <1>0, <3>1, Bounds DEF Calls, Bounded
    <2>2. Scripted(c, "windows", r)
      BY <1>7 DEF Activated
    <2> HIDE DEF r
    <2> QED
      BY <1>k, <2>1, <2>2, ScriptedInv
  <1>8. CASE OtherListed(c)
    <2>1. PICK w \in Resolutions(c, OtherWindows \cap open) :
            Set(c, [call[c] EXCEPT !.at = "other_activate", !.window = w, !.other = TRUE])
      BY <1>8 DEF OtherListed
    <2>2. w \in Windows
      BY <2>1, ResolutionsType, FocusAssumption
    <2> DEFINE r == [call[c] EXCEPT !.at = "other_activate", !.window = w, !.other = TRUE]
    <2>3. r \in Calls /\ Bounded(r)
      BY <1>0, <2>2 DEF Calls, Bounded, CallSteps
    <2>4. Set(c, r)
      BY <2>1
    <2> HIDE DEF r
    <2> QED
      BY <1>8, <2>3, <2>4, SetInv, UnscriptedInv DEF OtherListed, Unscripted
  <1>9. CASE OtherActivates(c)
    <2>0. UNCHANGED <<scripts, tx, objects, files, kwinVars, open>>
      BY <1>9 DEF OtherActivates
    <2>1. CASE Return(c, call[c]) /\ UNCHANGED active
      <3>1. UNCHANGED scriptVars
        BY <2>0, <2>1 DEF scriptVars, desktopVars
      <3> QED
        BY <1>0, <2>1, <3>1, ReturnInv, UnscriptedInv
    <2>2. CASE /\ call[c].window \in open
               /\ active' = call[c].window
               /\ Set(c, [call[c] EXCEPT !.at = "other_query", !.queries = 1])
      <3> DEFINE r == [call[c] EXCEPT !.at = "other_query", !.queries = 1]
      <3>1. r \in Calls /\ Bounded(r)
        <4>1. "other_query" \in CallSteps
          BY DEF CallSteps, Verifying
        <4> QED
          BY <1>0, <4>1, Bounds DEF Calls, Bounded
      <3>2. Set(c, r)
        BY <2>2
      <3> HIDE DEF r
      <3> QED
        BY <2>0, <2>2, <3>1, <3>2, SetInv, ActiveInv
    <2> QED
      BY <1>9, <2>1, <2>2 DEF OtherActivates
  <1>10. CASE Queried(c)
    <2>1. Ended(c, "querying") /\ Judge(c, Answer(c).ok, Answer(c).active) /\ Collected(c)
      BY <1>10 DEF Queried
    <2>2. Answer(c).ok \in BOOLEAN /\ Answer(c).active \in Windows \cup {None}
      BY <2>1, EndedType DEF Answers
    <2> QED
      BY <2>1, <2>2, JudgeInv, EndedType, CollectedInv
  <1>11. CASE OtherQueried(c)
    <2>1. \/ Judge(c, TRUE, IF active \in OtherWindows THEN active ELSE None)
          \/ Judge(c, FALSE, None)
      BY <1>11 DEF OtherQueried
    <2>2. (IF active \in OtherWindows THEN active ELSE None) \in Windows \cup {None}
      BY FocusAssumption
    <2>3. CallInv'
      BY <2>1, <2>2, JudgeInv
    <2> QED
      BY <1>11, <2>3, UnscriptedInv DEF OtherQueried, Unscripted
  <1>12. CASE QueryAgain(c)
    <2> DEFINE r == [call[c] EXCEPT !.queries = @ + 1, !.startedLate = call[c].late,
                                    !.missed = FALSE, !.stale = FALSE]
               q(at) == [r EXCEPT !.at = at]
    <2>1. /\ call[c].at = "sleeping" /\ (call[c].late \/ call[c].queries + 1 < MaxQueries)
          /\ IF r.other THEN Set(c, q("other_query")) /\ Unscripted
             ELSE Scripted(c, "windows", q("querying"))
      BY <1>12 DEF QueryAgain
    <2>2. /\ call[c].queries < MaxQueries /\ call[c].queries \in 0..MaxQueries
          /\ call[c].late \in BOOLEAN
      BY <1>0, <2>1 DEF Bounded, Calls
    <2>3. /\ r \in Calls /\ r.startedLate = call[c].late
          /\ r.queries = call[c].queries + 1
      <3>1. call[c].queries + 1 \in 0..MaxQueries
        BY <2>2, Bounds
      <3> QED
        BY <1>0, <2>2, <3>1 DEF Calls
    <2>4. ASSUME NEW at \in {"querying", "other_query"}
          PROVE  q(at) \in Calls /\ Bounded(q(at))
      <3> HIDE DEF r
      <3>1. q(at) \in Calls /\ q(at).at = at
            /\ q(at).queries = call[c].queries + 1 /\ q(at).startedLate = call[c].late
        BY <2>3, <2>4 DEF Calls, CallSteps, Verifying
      <3> QED
        BY <3>1, <2>1, <2>2 DEF Bounded
    <2>5. q("querying") \in Calls /\ Bounded(q("querying"))
      BY <2>4
    <2>6. q("other_query") \in Calls /\ Bounded(q("other_query"))
      BY <2>4
    <2> HIDE DEF q
    <2>7. CASE Set(c, q("other_query")) /\ Unscripted
      BY <2>6, <2>7, SetInv, UnscriptedInv DEF Unscripted
    <2>8. CASE Scripted(c, "windows", q("querying"))
      BY <1>k, <2>5, <2>8, ScriptedInv
    <2> QED
      BY <2>1, <2>7, <2>8
  <1> QED
    BY <1>1, <1>2, <1>3, <1>4, <1>5, <1>6, <1>7, <1>8, <1>9, <1>10, <1>11, <1>12 DEF Proceed

LEMMA CallStepInv ==
    ASSUME ScriptInv, CallInv, NEW c \in Callers, CallStep(c)
    PROVE  ScriptInv' /\ CallInv'
  <1>0. call[c] \in Calls /\ Bounded(call[c])
    BY DEF CallInv
  <1>1. CASE Proceed(c)
    BY <1>1, ProceedInv
  <1>2. CASE CutOff(c)
    <2> DEFINE r == [call[c] EXCEPT !.missed = TRUE, !.stale = TRUE]
    <2>1. r \in Calls
      BY <1>0 DEF Calls
    <2>2. Conclude(c, r) /\ (Drop(Current(c)) \/ Unscripted)
      BY <1>2 DEF CutOff
    <2> HIDE DEF r
    <2> QED
      BY <2>1, <2>2, ConcludeInv, DropInv, UnscriptedInv DEF Unscripted
  <1>3. CASE Deadline(c)
    <2> DEFINE r == [call[c] EXCEPT !.late = TRUE]
    <2>1. r \in Calls /\ Bounded(r)
      BY <1>0 DEF Calls, Bounded
    <2>2. Set(c, r) /\ Unscripted
      BY <1>3 DEF Deadline
    <2> HIDE DEF r
    <2> QED
      BY <2>1, <2>2, SetInv, UnscriptedInv DEF Unscripted
  <1>4. CASE Cancel(c)
    <2> DEFINE r == [Idle EXCEPT !.at = "cancelled"]
    <2>1. r \in Calls /\ Bounded(r)
      BY Bounds DEF Calls, Idle, CallSteps, Bounded
    <2>2. Set(c, r) /\ (Drop(Current(c)) \/ Unscripted)
      BY <1>4 DEF Cancel
    <2> HIDE DEF r
    <2> QED
      BY <2>1, <2>2, SetInv, DropInv, UnscriptedInv DEF Unscripted
  <1> QED
    BY <1>1, <1>2, <1>3, <1>4 DEF CallStep

LEMMA InitInv == Init => IInv
  <1> SUFFICES ASSUME Init PROVE IInv
    OBVIOUS
  <1>1. Idle \in Calls /\ Bounded(Idle)
    BY Bounds DEF Calls, Idle, CallSteps, Bounded
  <1> QED
    BY <1>1, ScriptInitInv DEF Init, IInv, CallInv

LEMMA NextInv == IInv /\ [Next]_focusVars => IInv'
  <1> SUFFICES ASSUME IInv, [Next]_focusVars PROVE IInv'
    OBVIOUS
  <1>0. ScriptInv /\ CallInv
    BY DEF IInv
  <1>1. CASE UNCHANGED focusVars
    <2>1. UNCHANGED scriptVars /\ UNCHANGED <<call, seen, landed>>
      BY <1>1 DEF focusVars
    <2>2. ScriptInv'
      BY <1>0, <2>1, UnscriptedInv
    <2> QED
      BY <2>1, <2>2 DEF IInv, CallInv
  <1>2. CASE Next
    <2>1. seen' \in [Callers -> BOOLEAN] /\ landed' \in [Callers -> BOOLEAN]
      BY <1>2 DEF Next, Watch, IInv
    <2>2. UNCHANGED call => CallInv'
      BY <1>0 DEF CallInv
    <2>3. CASE \E c \in Callers : CallStep(c)
      BY <1>0, <2>1, <2>3, CallStepInv DEF IInv
    <2>4. CASE (\E t \in Scripts : Transact(t)) /\ UNCHANGED call
      BY <1>0, <2>1, <2>2, <2>4, TransactInv DEF IInv
    <2>5. CASE Kwin /\ UNCHANGED call
      BY <1>0, <2>1, <2>2, <2>5, KwinInv DEF IInv
    <2>6. CASE /\ UserSwitches \/ (\E w \in Windows : WindowCloses(w))
               /\ UNCHANGED call
      BY <1>0, <2>1, <2>2, <2>6, UserInv DEF IInv
    <2> QED
      BY <1>2, <2>3, <2>4, <2>5, <2>6 DEF Next
  <1> QED
    BY <1>1, <1>2

LEMMA Invariant == Spec => []IInv
  BY InitInv, NextInv, PTL DEF Spec

(* Types, and that a transaction belongs to a script its caller began: for any number of
   callers, windows and scripts, and any faults. *)
THEOREM FocusTypeCorrect == Spec => []TypeOK
  <1>1. IInv => TypeOK
    BY CallType DEF IInv, CallInv, ScriptInv
  <1> QED
    BY <1>1, Invariant, PTL

(* A script transaction that has ended leaves no callback object, no file and no script
   that KWin was not asked to unload, whether it succeeded, failed at any step, ran out
   of time or was dropped (KwinScriptCleanup). *)
THEOREM NothingLeftBehind == Spec => []NothingLeft
  <1>1. IInv => NothingLeft
    <2> SUFFICES ASSUME IInv, NEW t \in Scripts, ~At(t, Steps \ {"done"})
                 PROVE  /\ t \notin objects /\ t \notin files
                        /\ t \in loaded => Asked(t, "unload")
      BY DEF NothingLeft
    <2>1. t \notin objects /\ t \notin files
      BY DEF IInv, ScriptInv, LeftBehind
    <2>2. ~At(t, {"load", "loaded", "start", "poll"})
      BY DEF At, Steps, Awaiting
    <2> QED
      BY <2>1, <2>2 DEF IInv, ScriptInv, LeftBehind
  <1> QED
    BY <1>1, Invariant, PTL

-----------------------------------------------------------------------------
(* What a call knows: of its target, of the windows its queries reported, and of the
   focus it waited for. *)
Before == {"idle", "listing", "looking", "activating", "other_list", "other_activate"}

CallKnows(c) ==
    LET r == call[c] IN
    /\ r.at \notin Verifying => ~r.late /\ ~r.startedLate
    /\ r.at \notin Verifying \cup {"done"} => r.last = None
    /\ r.at \in Before => ~landed[c]
    /\ r.at \in Verifying \cup {"looking", "activating", "other_activate"} =>
           r.window \in Windows
    /\ r.at \in Before \ {"other_activate"} => ~r.other
    /\ r.at \in {"other_activate", "other_query"} => r.other
    /\ r.other => r.window \in OtherWindows
    /\ r.startedLate => r.late
    /\ r.ok => r.at = "done" /\ seen[c]
    /\ Satisfies(c, r.window, r.last) => seen[c]
    /\ r.at = "done" /\ landed[c] /\ ~r.missed => r.ok
    /\ r.at \in Verifying /\ landed[c] => active = r.window
    /\ r.at \in Verifying /\ Satisfies(c, r.window, active) => seen[c]

(* A query's script lists windows.  The focus it reported was seen; if focus was at the
   window since before the deadline and the query started after it, it reported that. *)
QueryKnows(c) ==
    call[c].at = "querying" =>
        /\ Says(Current(c)).kind = "windows"
        /\ Known(Current(c)) =>
              /\ Satisfies(c, call[c].window, tx[Current(c)].answer.active) => seen[c]
              /\ call[c].startedLate /\ landed[c] /\ tx[Current(c)].answer.ok =>
                     tx[Current(c)].answer.active = call[c].window


FocusInv == \A c \in Callers : CallKnows(c) /\ QueryKnows(c)

(* A step leaves the answer of script t alone, empties it, or puts in what a script that
   lists windows sees, or what another script says. *)
HeardOf(t) ==
    t \in DOMAIN tx' =>
        /\ t \in DOMAIN tx
        /\ \/ tx'[t].answer \in {tx[t].answer, Nothing}
           \/ Says(t).kind # "windows"
           \/ tx'[t].answer.active = active'

(* Watch, for one caller. *)
WatchOf(c) ==
    /\ seen'[c] = (seen[c] \/ (/\ call'[c].at \in Verifying
                               /\ Satisfies(c, call'[c].window, active')))
    /\ landed'[c] = IF call'[c].at \in Verifying
                    THEN active' = call'[c].window /\ (landed[c] \/ ~call'[c].late)
                    ELSE landed[c]

LEMMA WatchEach == ASSUME NEW c \in Callers, Watch PROVE WatchOf(c)
BY DEF Watch, WatchOf

(* A call that does not move. *)
LEMMA KnowsKept ==
    ASSUME IInv, NEW c \in Callers, CallKnows(c), QueryKnows(c), call'[c] = call[c],
           scripts'[c] = scripts[c], HeardOf(Current(c)), WatchOf(c)
    PROVE  CallKnows(c)' /\ QueryKnows(c)'
  <1>1. CallKnows(c)'
    <2> DEFINE r == call[c]
    <2>2. seen[c] => seen'[c]
      BY DEF WatchOf
    <2>3. r.at \in Before \cup {"done"} => landed'[c] = landed[c]
      BY DEF WatchOf, Verifying, Before
    <2>4. r.at \in Verifying /\ landed'[c] => active' = r.window
      BY DEF WatchOf
    <2>5. r.at \in Verifying /\ Satisfies(c, r.window, active') => seen'[c]
      BY DEF WatchOf
    <2> QED
      BY <2>2, <2>3, <2>4, <2>5 DEF CallKnows
  <1>2. Current(c)' = Current(c) /\ Says(Current(c))' = Says(Current(c))
    BY DEF Current, Says
  <1>3. Nothing.active = None /\ Nothing.ok = FALSE
    BY DEF Nothing
  <1>4. QueryKnows(c)'
    <2> SUFFICES ASSUME call[c].at = "querying", Current(c) \in DOMAIN tx'
                 PROVE  /\ Says(Current(c)).kind = "windows"
                        /\ Satisfies(c, call[c].window, tx'[Current(c)].answer.active)
                              => seen'[c]
                        /\ call[c].startedLate /\ landed'[c] /\ tx'[Current(c)].answer.ok
                              => tx'[Current(c)].answer.active = call[c].window
      BY <1>2 DEF QueryKnows, Known, Satisfies
    <2>1. call[c].at \in Verifying
      BY DEF Verifying
    <2>2. Says(Current(c)).kind = "windows"
      BY DEF QueryKnows
    <2>3. landed'[c] => active' = call[c].window
      BY <2>1 DEF WatchOf
    <2>4. landed'[c] /\ call[c].startedLate => landed[c]
      BY <2>1 DEF WatchOf, CallKnows
    <2>5. CASE tx'[Current(c)].answer = tx[Current(c)].answer
      BY <2>2, <2>4, <2>5 DEF QueryKnows, HeardOf, Known, WatchOf
    <2>6. CASE tx'[Current(c)].answer = Nothing
      BY <1>3, <2>2, <2>6 DEF Satisfies
    <2>7. CASE tx'[Current(c)].answer.active = active'
      BY <2>1, <2>2, <2>3, <2>7 DEF WatchOf
    <2>8. \/ tx'[Current(c)].answer = tx[Current(c)].answer
          \/ tx'[Current(c)].answer = Nothing
          \/ tx'[Current(c)].answer.active = active'
      BY <2>2 DEF HeardOf
    <2> QED
      BY <2>5, <2>6, <2>7, <2>8
  <1> QED
    BY <1>1, <1>4

LEMMA CleanUpHeard ==
    ASSUME ScriptInv, NEW t \in DOMAIN tx, NEW r \in Transactions, CleanUp(t, r),
           r.answer \in {tx[t].answer, Nothing}
    PROVE  \A u : HeardOf(u)
  <1>1. /\ DOMAIN tx' = DOMAIN tx
        /\ tx'[t].answer = r.answer
        /\ \A u \in DOMAIN tx : u # t => tx'[u] = tx[u]
    BY DEF ScriptInv, ScriptTypeOK, CleanUp, Transactions
  <1> QED
    BY <1>1 DEF HeardOf

LEMMA DropHeard ==
    ASSUME ScriptInv, NEW t, Drop(t)
    PROVE  scripts' = scripts /\ active' = active /\ \A u : HeardOf(u)
  <1>1. t \in DOMAIN tx /\ tx[t] \in Transactions
    BY AtType DEF Drop
  <1> DEFINE r == [tx[t] EXCEPT !.dropped = TRUE, !.answer = Nothing]
  <1>2. r \in Transactions /\ r.answer = Nothing
    BY <1>1, NothingType DEF Transactions
  <1>3. CleanUp(t, r) /\ scripts' = scripts /\ active' = active
    BY DEF Drop, desktopVars
  <1> HIDE DEF r
  <1> QED
    BY <1>1, <1>2, <1>3, CleanUpHeard

(* A transaction's own steps put no answer in. *)
LEMMA TransactHeard ==
    ASSUME ScriptInv, NEW t \in Scripts, Transact(t)
    PROVE  scripts' = scripts /\ active' = active /\ \A u : HeardOf(u)
  <1>0. scripts' = scripts /\ active' = active
    BY DEF Transact, Resolve, Prepare, PrepareFails, Start, Receive, Fail, GiveUpUnload,
           Remove, desktopVars
  <1>t. tx \in [DOMAIN tx -> Transactions]
    BY DEF ScriptInv, ScriptTypeOK
  <1>1. CASE Resolve(t) \/ Prepare(t) \/ Start(t) \/ GiveUpUnload(t)
    <2>1. /\ t \in DOMAIN tx
          /\ DOMAIN tx' = DOMAIN tx
          /\ \A u \in DOMAIN tx : u # t => tx'[u] = tx[u]
      BY <1>1, <1>t DEF Resolve, Prepare, Start, GiveUpUnload, At, Known
    <2>2. tx[t] \in Transactions
      BY <1>t, <2>1
    <2>3. tx'[t].answer = tx[t].answer
      BY <1>1, <1>t, <2>1, <2>2 DEF Resolve, Prepare, Start, GiveUpUnload, Transactions
    <2> QED
      BY <1>0, <2>1, <2>3 DEF HeardOf
  <1>2. CASE PrepareFails(t)
    <2>1. PICK wrote \in BOOLEAN : CleanUp(t, [tx[t] EXCEPT !.owns = TRUE, !.path = wrote])
      BY <1>2 DEF PrepareFails
    <2>2. t \in DOMAIN tx /\ tx[t] \in Transactions
      BY <1>2, AtType DEF PrepareFails
    <2> DEFINE r == [tx[t] EXCEPT !.owns = TRUE, !.path = wrote]
    <2>3. r \in Transactions /\ r.answer = tx[t].answer
      BY <2>2 DEF Transactions
    <2> HIDE DEF r
    <2> QED
      BY <1>0, <2>1, <2>2, <2>3, CleanUpHeard DEF r
  <1>3. CASE Receive(t)
    <2>1. t \in DOMAIN tx /\ tx[t] \in Transactions
      BY <1>3, AtType DEF Receive
    <2> QED
      BY <1>0, <1>3, <2>1, CleanUpHeard DEF Receive
  <1>4. CASE Fail(t)
    <2>1. t \in DOMAIN tx /\ tx[t] \in Transactions
      BY <1>4, AtType DEF Fail
    <2> DEFINE r == [tx[t] EXCEPT !.answer = Nothing]
    <2>2. r \in Transactions /\ r.answer = Nothing
      BY <2>1, NothingType DEF Transactions
    <2>3. CleanUp(t, r)
      BY <1>4 DEF Fail
    <2> HIDE DEF r
    <2> QED
      BY <1>0, <2>1, <2>2, <2>3, CleanUpHeard
  <1>5. CASE Remove(t)
    <2>1. t \in DOMAIN tx /\ tx[t] \in Transactions
      BY <1>5, AtType DEF Remove
    <2>2. CASE tx' = Without(t)
      BY <1>0, <2>2 DEF HeardOf, Without
    <2>3. CASE tx' = [tx EXCEPT ![t].at = "done"]
      <3>1. DOMAIN tx' = DOMAIN tx /\ tx'[t].answer = tx[t].answer
            /\ \A u \in DOMAIN tx : u # t => tx'[u] = tx[u]
        BY <2>1, <2>3, <1>t DEF Transactions
      <3> QED
        BY <1>0, <3>1 DEF HeardOf
    <2> QED
      BY <1>5, <2>2, <2>3 DEF Remove
  <1> QED
    BY <1>0, <1>1, <1>2, <1>3, <1>4, <1>5 DEF Transact

(* An answer comes from the desktop as it is when the script runs. *)
LEMMA KwinHeard ==
    ASSUME ScriptInv, Kwin
    PROVE  scripts' = scripts /\ \A u : HeardOf(u)
  <1>t. tx \in [DOMAIN tx -> Transactions]
    BY DEF ScriptInv, ScriptTypeOK
  <1>1. ASSUME NEW t \in Scripts, KwinLoads(t) \/ KwinStarts(t) \/ KwinUnloads(t)
        PROVE  scripts' = scripts /\ \A u : HeardOf(u)
    BY <1>1, <1>t DEF KwinLoads, KwinStarts, KwinUnloads, HeardOf, At, Known, Transactions
  <1>2. ASSUME NEW t \in Scripts, Run(t)
        PROVE  scripts' = scripts /\ \A u : HeardOf(u)
    <2>0. scripts' = scripts
      BY <1>2 DEF Run
    <2>1. CASE ListWindows(t)
      <3> DEFINE a == [ok |-> TRUE, open |-> open, active |-> active]
      <3>1. Callback(t, a) /\ active' = active /\ a.active = active
        BY <2>1 DEF ListWindows
      <3> HIDE DEF a
      <3>2. CASE tx' = tx
        BY <2>0, <3>2 DEF HeardOf
      <3>3. CASE At(t, Awaiting) /\ tx' = [tx EXCEPT ![t].delivered = TRUE, ![t].answer = a]
        <4>1. t \in DOMAIN tx /\ tx[t] \in Transactions
          BY <3>3, AtType
        <4>2. DOMAIN tx' = DOMAIN tx /\ tx'[t].answer = a
              /\ \A u \in DOMAIN tx : u # t => tx'[u] = tx[u]
          BY <3>3, <4>1, <1>t DEF Transactions
        <4> QED
          BY <2>0, <3>1, <4>2 DEF HeardOf
      <3> QED
        BY <3>1, <3>2, <3>3 DEF Callback
    <2>2. CASE ActivateWindow(t)
      <3>1. Says(t).kind # "windows"
        BY <2>2 DEF ActivateWindow
      <3>2. PICK a : Callback(t, a)
        BY <2>2 DEF ActivateWindow
      <3>3. DOMAIN tx' = DOMAIN tx /\ \A u \in DOMAIN tx : u # t => tx'[u] = tx[u]
        BY <3>2, <1>t DEF Callback
      <3> QED
        BY <2>0, <3>1, <3>3 DEF HeardOf
    <2> QED
      BY <1>2, <2>1, <2>2 DEF Run
  <1>3. CASE KwinRestarts
    BY <1>3, <1>t DEF KwinRestarts, HeardOf, Transactions
  <1> QED
    BY <1>1, <1>2, <1>3 DEF Kwin

(* What a step of caller c leaves of the other callers' scripts. *)
Apart(c) == \A d \in Callers \ {c} : scripts'[d] = scripts[d] /\ HeardOf(Current(d))

LEMMA StillKnow ==
    ASSUME IInv, FocusInv, Watch, UNCHANGED call, scripts' = scripts, \A u : HeardOf(u)
    PROVE  FocusInv'
  <1> SUFFICES ASSUME NEW c \in Callers PROVE CallKnows(c)' /\ QueryKnows(c)'
    BY DEF FocusInv
  <1>1. CallKnows(c) /\ QueryKnows(c) /\ HeardOf(Current(c))
    BY DEF FocusInv
  <1> QED
    BY <1>1, WatchEach, KnowsKept

LEMMA OneKnows ==
    ASSUME IInv, FocusInv, Watch, NEW c \in Callers, NEW r, Set(c, r), Apart(c),
           CallKnows(c)', QueryKnows(c)'
    PROVE  FocusInv'
  <1>1. ASSUME NEW d \in Callers, d # c PROVE CallKnows(d)' /\ QueryKnows(d)'
    <2>1. CallKnows(d) /\ QueryKnows(d) /\ HeardOf(Current(d)) /\ scripts'[d] = scripts[d]
      BY <1>1 DEF FocusInv, Apart
    <2>2. call'[d] = call[d]
      BY <1>1 DEF Set, IInv, CallInv
    <2> QED
      BY <2>1, <2>2, WatchEach, KnowsKept
  <1> QED
    BY <1>1 DEF FocusInv

LEMMA UnscriptedApart ==
    ASSUME NEW c \in Callers, UNCHANGED <<scripts, tx>>
    PROVE  Apart(c)
BY DEF Apart, HeardOf

LEMMA CollectedApart ==
    ASSUME NEW c \in Callers, Collected(c)
    PROVE  Apart(c)
BY DEF Apart, HeardOf, Collected, Without

LEMMA DropApart ==
    ASSUME ScriptInv, NEW c \in Callers, Drop(Current(c))
    PROVE  Apart(c)
BY DropHeard DEF Apart

(* A script that begins is the caller's own, and has no answer yet. *)
LEMMA BeginApart ==
    ASSUME IInv, NEW c \in Callers, NEW kind \in Kinds, NEW window \in Windows \cup {None},
           Begin(c, kind, window)
    PROVE  /\ Apart(c)
           /\ Says(Current(c))' = [kind |-> kind, window |-> window]
           /\ tx'[Current(c)'].answer = Nothing
  <1> DEFINE t == <<c, Len(scripts[c]) + 1>>
             kept == {u \in DOMAIN tx : ~(u[1] = c /\ tx[u].at = "done")}
             line == [kind |-> kind, window |-> window]
  <1>1. /\ scripts \in [Callers -> Seq([kind : Kinds, window : Windows \cup {None}])]
        /\ Len(scripts[c]) \in Nat
    <2>1. scripts \in [Callers -> Seq([kind : Kinds, window : Windows \cup {None}])]
      BY DEF IInv, ScriptInv, ScriptTypeOK
    <2>2. scripts[c] \in Seq([kind : Kinds, window : Windows \cup {None}])
      BY <2>1
    <2> QED
      BY <2>1, <2>2, LenProperties
  <1>2. /\ scripts' = [scripts EXCEPT ![c] = Append(scripts[c], line)]
        /\ tx' = [u \in kept \cup {t} |-> IF u = t THEN New ELSE tx[u]]
    BY DEF Begin
  <1>3. scripts'[c] = Append(scripts[c], line)
    BY <1>1, <1>2
  <1>4. Len(scripts'[c]) = Len(scripts[c]) + 1 /\ scripts'[c][Len(scripts[c]) + 1] = line
    BY <1>1, <1>3
  <1>5. Current(c)' = t
    BY <1>4 DEF Current
  <1>6. Apart(c)
    <2> SUFFICES ASSUME NEW d \in Callers, d # c
                 PROVE  scripts'[d] = scripts[d] /\ HeardOf(Current(d))
      BY DEF Apart
    <2>1. scripts'[d] = scripts[d]
      BY <1>1, <1>2
    <2>2. Current(d) # t
      BY DEF Current
    <2>3. Current(d) \in DOMAIN tx' => Current(d) \in DOMAIN tx
                                      /\ tx'[Current(d)] = tx[Current(d)]
      BY <1>2, <2>2
    <2> QED
      BY <2>1, <2>3 DEF HeardOf
  <1>7. tx'[t].answer = Nothing
    BY <1>2 DEF New
  <1>8. Says(Current(c))' = line
    <2>1. Says(Current(c))' = scripts'[t[1]][t[2]]
      BY <1>5 DEF Says
    <2> QED
      BY <1>4, <2>1
  <1> HIDE DEF t
  <1> QED
    BY <1>5, <1>6, <1>7, <1>8

-----------------------------------------------------------------------------
(* The steps of a call. *)
LEMMA KnowsType ==
    ASSUME IInv, FocusInv, NEW c \in Callers
    PROVE  /\ call[c] \in Calls /\ CallKnows(c) /\ QueryKnows(c) /\ ScriptInv
           /\ seen[c] \in BOOLEAN /\ landed[c] \in BOOLEAN
           /\ None \notin Windows
BY ScriptAssumption DEF IInv, CallInv, FocusInv

LEMMA SetIs ==
    ASSUME IInv, NEW c \in Callers, NEW r, Set(c, r)
    PROVE  call'[c] = r
BY DEF IInv, CallInv, Set

(* A call returns: what its result says it has seen. *)
LEMMA ReturnKnows ==
    ASSUME IInv, FocusInv, Watch, NEW c \in Callers, NEW r \in Calls, Return(c, r), Apart(c),
           r.ok => seen[c], Satisfies(c, r.window, r.last) => seen[c],
           landed[c] /\ ~r.missed => r.ok
    PROVE  FocusInv'
  <1> DEFINE q == [Idle EXCEPT !.at = "done", !.window = r.window, !.last = r.last, !.ok = r.ok,
                               !.missed = r.missed, !.stale = r.stale]
  <1>1. /\ q.at = "done" /\ ~q.late /\ ~q.startedLate /\ ~q.other
        /\ q.window = r.window /\ q.last = r.last /\ q.ok = r.ok /\ q.missed = r.missed
    BY DEF Idle
  <1>2. Set(c, q)
    BY DEF Return
  <1> HIDE DEF q
  <1>3. call'[c] = q
    BY <1>2, SetIs
  <1>4. (seen[c] => seen'[c]) /\ landed'[c] = landed[c]
    BY <1>1, <1>3, WatchEach DEF WatchOf, Verifying
  <1>5. CallKnows(c)'
    BY <1>1, <1>3, <1>4 DEF CallKnows, Verifying, Before
  <1>6. QueryKnows(c)'
    BY <1>1, <1>3 DEF QueryKnows
  <1> QED
    BY <1>2, <1>5, <1>6, OneKnows

(* A call goes on towards the activation. *)
LEMMA BeforeKnows ==
    ASSUME IInv, FocusInv, Watch, NEW c \in Callers, NEW r, Set(c, r), Apart(c),
           call[c].at \in Before, r.at \in Before,
           r.last = call[c].last, r.late = call[c].late, r.startedLate = call[c].startedLate,
           r.ok = call[c].ok,
           r.at \in {"looking", "activating", "other_activate"} => r.window \in Windows,
           r.other = (r.at = "other_activate"),
           r.other => r.window \in OtherWindows
    PROVE  FocusInv'
  <1>1. call'[c] = r
    BY SetIs
  <1>2. call[c].at \notin Verifying /\ r.at \notin Verifying
        /\ call[c].at # "done" /\ r.at # "done"
    BY DEF Before, Verifying
  <1>3. (seen[c] => seen'[c]) /\ landed'[c] = landed[c]
    BY <1>1, <1>2, WatchEach DEF WatchOf
  <1>4. r.last = None /\ ~landed[c] /\ ~r.late /\ ~r.startedLate /\ ~r.ok
    BY <1>2, KnowsType DEF CallKnows
  <1>5. ~Satisfies(c, r.window, None)
    BY DEF Satisfies
  <1>6. CallKnows(c)'
    BY <1>1, <1>2, <1>3, <1>4, <1>5 DEF CallKnows, Before
  <1>7. QueryKnows(c)'
    BY <1>1, <1>2 DEF QueryKnows, Verifying
  <1> QED
    BY <1>6, <1>7, OneKnows

(* A call goes on verifying. *)
LEMMA VerifyKnows ==
    ASSUME IInv, FocusInv, Watch, NEW c \in Callers, NEW r, Set(c, r), Apart(c),
           r.at \in Verifying, r.window \in Windows, ~r.ok,
           r.at = "other_query" => r.other, r.other => r.window \in OtherWindows,
           r.startedLate => r.late, Satisfies(c, r.window, r.last) => seen[c],
           QueryKnows(c)'
    PROVE  FocusInv'
  <1>1. call'[c] = r
    BY SetIs
  <1>2. r.at \notin Before /\ r.at # "done" /\ r.at # "other_activate"
    BY DEF Before, Verifying
  <1>3. /\ seen[c] => seen'[c]
        /\ landed'[c] => active' = r.window
        /\ Satisfies(c, r.window, active') => seen'[c]
    BY <1>1, WatchEach DEF WatchOf
  <1>4. CallKnows(c)'
    BY <1>1, <1>2, <1>3 DEF CallKnows
  <1> QED
    BY <1>4, OneKnows

LEMMA BegunKnows ==
    ASSUME IInv, NEW c \in Callers, NEW r \in Calls, Scripted(c, "windows", r)
    PROVE  QueryKnows(c)' /\ Apart(c)
  <1>1. Set(c, r) /\ Begin(c, "windows", r.window) /\ r.window \in Windows \cup {None}
    BY DEF Scripted, Calls
  <1>2. /\ Apart(c) /\ Says(Current(c))'.kind = "windows"
        /\ tx'[Current(c)'].answer = Nothing
    BY <1>1, BeginApart DEF Kinds
  <1>3. Nothing.active = None /\ Nothing.ok = FALSE
    BY DEF Nothing
  <1>4. \A w : ~Satisfies(c, w, None)
    BY DEF Satisfies
  <1> QED
    BY <1>2, <1>3, <1>4 DEF QueryKnows

(* A query has answered: what it reported was there to see, and if it began after the
   deadline it is the last word. *)
LEMMA JudgeKnows ==
    ASSUME IInv, FocusInv, Watch, NEW c \in Callers, NEW ok \in BOOLEAN,
           NEW window \in Windows \cup {None}, Judge(c, ok, window), Apart(c),
           call[c].at \in Verifying,
           Satisfies(c, call[c].window, window) => seen[c],
           call[c].startedLate /\ landed[c] /\ ok => window = call[c].window
    PROVE  FocusInv'
  <1> DEFINE r == [call[c] EXCEPT !.missed = ~ok, !.stale = window = None,
                                  !.last = IF window = None THEN @ ELSE window]
  <1>0. call[c] \in Calls /\ CallKnows(c)
    BY KnowsType
  <1>1. /\ r \in Calls
        /\ r.window = call[c].window /\ r.late = call[c].late /\ r.other = call[c].other
        /\ r.startedLate = call[c].startedLate /\ r.ok = call[c].ok
        /\ r.missed = ~ok
        /\ r.last = IF window = None THEN call[c].last ELSE window
    BY <1>0 DEF Calls
  <1>2. Heard(c, r)
    BY DEF Judge
  <1> HIDE DEF r
  <1>3. /\ r.window \in Windows /\ r.window # None /\ ~r.ok
        /\ r.startedLate => r.late
        /\ r.other => r.window \in OtherWindows
        /\ Satisfies(c, r.window, r.last) => seen[c]
    BY <1>0, <1>1, KnowsType DEF CallKnows, Verifying
  <1>4. CASE r.last = r.window \/ r.startedLate
    <2> DEFINE q == [r EXCEPT !.ok = Satisfies(c, r.window, r.last)]
    <2>1. /\ q \in Calls /\ q.window = r.window /\ q.last = r.last /\ q.missed = r.missed
          /\ q.ok = Satisfies(c, r.window, r.last)
      BY <1>1 DEF Calls, Satisfies
    <2>2. Return(c, q)
      BY <1>2, <1>4 DEF Heard, Conclude
    <2> HIDE DEF q
    <2>3. landed[c] /\ ~q.missed => r.last = r.window
      BY <1>1, <1>3, <1>4, <2>1
    <2>4. r.last = r.window => Satisfies(c, r.window, r.last)
      BY <1>3 DEF Satisfies
    <2> QED
      BY <1>3, <2>1, <2>2, <2>3, <2>4, ReturnKnows
  <1>5. CASE ~(r.last = r.window \/ r.startedLate)
    <2> DEFINE q == [r EXCEPT !.at = "sleeping"]
    <2>1. /\ q.at = "sleeping" /\ q.window = r.window /\ q.last = r.last /\ q.ok = r.ok
          /\ q.other = r.other /\ q.late = r.late /\ q.startedLate = r.startedLate
      BY <1>1 DEF Calls
    <2>2. Set(c, q)
      BY <1>2, <1>5 DEF Heard
    <2> HIDE DEF q
    <2>3. QueryKnows(c)'
      BY <2>1, <2>2, SetIs DEF QueryKnows
    <2> QED
      BY <1>3, <2>1, <2>2, <2>3, VerifyKnows DEF Verifying
  <1> QED
    BY <1>4, <1>5

LEMMA ProceedKnows ==
    ASSUME IInv, FocusInv, Watch, NEW c \in Callers, Proceed(c)
    PROVE  FocusInv'
  <1>0. /\ call[c] \in Calls /\ CallKnows(c) /\ QueryKnows(c) /\ ScriptInv /\ CallInv
        /\ landed[c] \in BOOLEAN /\ seen[c] \in BOOLEAN /\ None \notin Windows
    BY KnowsType DEF IInv
  <1>1. CASE StartList(c)
    <2> DEFINE r == [call[c] EXCEPT !.at = "listing"]
    <2>1. /\ r \in Calls /\ r.at = "listing" /\ r.window = call[c].window
          /\ r.last = call[c].last /\ r.ok = call[c].ok /\ r.late = call[c].late
          /\ r.startedLate = call[c].startedLate /\ r.other = call[c].other
      BY <1>0 DEF Calls, CallSteps
    <2>2. Scripted(c, "windows", r) /\ call[c].at = "idle"
      BY <1>1 DEF StartList
    <2> HIDE DEF r
    <2>3. Apart(c) /\ Set(c, r)
      BY <2>1, <2>2, BegunKnows DEF Scripted
    <2>4. ~call[c].other /\ call[c].other \in BOOLEAN
      BY <1>0, <2>2 DEF CallKnows, Before, Calls
    <2> QED
      BY <2>1, <2>2, <2>3, <2>4, BeforeKnows DEF Before
  <1>2. CASE ListedNothing(c)
    <2> DEFINE r == [call[c] EXCEPT !.at = "other_list"]
    <2>1. /\ r.at = "other_list" /\ r.window = call[c].window
          /\ r.last = call[c].last /\ r.ok = call[c].ok /\ r.late = call[c].late
          /\ r.startedLate = call[c].startedLate /\ r.other = call[c].other
      BY <1>0 DEF Calls
    <2>2. Set(c, r) /\ Apart(c) /\ call[c].at = "listing"
      BY <1>2, CollectedApart DEF ListedNothing, Ended
    <2> HIDE DEF r
    <2>3. ~call[c].other /\ call[c].other \in BOOLEAN
      BY <1>0, <2>2 DEF CallKnows, Before, Calls
    <2> QED
      BY <2>1, <2>2, <2>3, BeforeKnows DEF Before
  <1>3. CASE Listed(c)
    <2>1. Ended(c, "listing") /\ Answer(c) \in Answers /\ call[c].at = "listing"
      BY <1>0, <1>3, EndedType DEF Listed
    <2>2. PICK w \in Resolutions(c, Answer(c).open) :
            Scripted(c, "windows", [call[c] EXCEPT !.at = "looking", !.window = w])
      BY <1>3 DEF Listed
    <2>3. w \in Windows
      BY <2>1, ResolutionsType DEF Answers
    <2> DEFINE r == [call[c] EXCEPT !.at = "looking", !.window = w]
    <2>4. /\ r \in Calls /\ r.at = "looking" /\ r.window = w
          /\ r.last = call[c].last /\ r.ok = call[c].ok /\ r.late = call[c].late
          /\ r.startedLate = call[c].startedLate /\ r.other = call[c].other
      BY <1>0, <2>3 DEF Calls, CallSteps
    <2>5. Scripted(c, "windows", r)
      BY <2>2
    <2> HIDE DEF r
    <2>6. Apart(c) /\ Set(c, r)
      BY <2>4, <2>5, BegunKnows DEF Scripted
    <2>7. ~call[c].other /\ call[c].other \in BOOLEAN
      BY <1>0, <2>1 DEF CallKnows, Before, Calls
    <2> QED
      BY <2>1, <2>3, <2>4, <2>6, <2>7, BeforeKnows DEF Before
  <1>r. ASSUME call[c].at \in Before, Return(c, call[c]), Apart(c) PROVE FocusInv'
    <2>1. ~landed[c] /\ ~call[c].ok /\ call[c].last = None
      BY <1>r, <1>0 DEF CallKnows, Before, Verifying
    <2>2. ~Satisfies(c, call[c].window, None)
      BY DEF Satisfies
    <2> QED
      BY <1>r, <1>0, <2>1, <2>2, ReturnKnows
  <1>4. CASE Unresolved(c)
    <2>1. Return(c, call[c]) /\ call[c].at \in {"listing", "other_list"}
          /\ (Collected(c) \/ Unscripted)
      BY <1>4 DEF Unresolved, Ended
    <2>2. Apart(c)
      BY <2>1, CollectedApart, UnscriptedApart DEF Unscripted, scriptVars
    <2> QED
      BY <1>r, <2>1, <2>2 DEF Before
  <1>5. CASE Looked(c)
    <2> DEFINE r == [call[c] EXCEPT !.at = "activating"]
    <2>1. /\ r \in Calls /\ r.at = "activating" /\ r.window = call[c].window
          /\ r.last = call[c].last /\ r.ok = call[c].ok /\ r.late = call[c].late
          /\ r.startedLate = call[c].startedLate /\ r.other = call[c].other
      BY <1>0 DEF Calls, CallSteps
    <2>2. Scripted(c, "result", r) /\ call[c].at = "looking"
      BY <1>5 DEF Looked, Ended
    <2> HIDE DEF r
    <2>3. Set(c, r) /\ Begin(c, "result", r.window) /\ r.window \in Windows \cup {None}
      BY <2>1, <2>2 DEF Scripted, Calls
    <2>4. Apart(c)
      BY <2>3, BeginApart DEF Kinds
    <2>5. ~call[c].other /\ call[c].other \in BOOLEAN /\ call[c].window \in Windows
      BY <1>0, <2>2 DEF CallKnows, Before, Calls
    <2> QED
      BY <2>1, <2>2, <2>3, <2>4, <2>5, BeforeKnows DEF Before
  <1>6. CASE NotActivated(c)
    <2>1. /\ Return(c, call[c]) /\ Collected(c)
          /\ call[c].at \in {"looking", "activating"}
      BY <1>6 DEF NotActivated, Ended
    <2> QED
      BY <1>r, <2>1, CollectedApart DEF Before
  <1>7. CASE Activated(c)
    <2> DEFINE r == [call[c] EXCEPT !.at = "querying", !.queries = 1]
    <2>1. /\ r \in Calls /\ r.at = "querying" /\ r.window = call[c].window
          /\ r.last = call[c].last /\ r.ok = call[c].ok /\ r.late = call[c].late
          /\ r.startedLate = call[c].startedLate /\ r.other = call[c].other
      <3>1. "querying" \in CallSteps
        BY DEF CallSteps, Verifying
      <3> QED
        BY <1>0, <3>1, Bounds DEF Calls
    <2>2. Scripted(c, "windows", r) /\ call[c].at = "activating"
      BY <1>7 DEF Activated, Ended
    <2> HIDE DEF r
    <2>3. Apart(c) /\ QueryKnows(c)' /\ Set(c, r)
      BY <2>1, <2>2, BegunKnows DEF Scripted
    <2>4. /\ ~call[c].other /\ call[c].window \in Windows /\ call[c].last = None
          /\ ~call[c].ok /\ ~call[c].startedLate
      BY <1>0, <2>2 DEF CallKnows, Before, Verifying
    <2>5. ~Satisfies(c, r.window, None)
      BY DEF Satisfies
    <2> QED
      BY <2>1, <2>3, <2>4, <2>5, VerifyKnows DEF Verifying
  <1>8. CASE OtherListed(c)
    <2>1. PICK w \in Resolutions(c, OtherWindows \cap open) :
            Set(c, [call[c] EXCEPT !.at = "other_activate", !.window = w, !.other = TRUE])
      BY <1>8 DEF OtherListed
    <2>2. w \in OtherWindows /\ w \in Windows
      BY <2>1, FocusAssumption DEF Resolutions
    <2> DEFINE r == [call[c] EXCEPT !.at = "other_activate", !.window = w, !.other = TRUE]
    <2>3. /\ r.at = "other_activate" /\ r.window = w /\ r.other = TRUE
          /\ r.last = call[c].last /\ r.ok = call[c].ok /\ r.late = call[c].late
          /\ r.startedLate = call[c].startedLate
      BY <1>0 DEF Calls
    <2>4. Set(c, r)
      BY <2>1
    <2> HIDE DEF r
    <2>5. Apart(c) /\ call[c].at = "other_list"
      BY <1>8, UnscriptedApart DEF OtherListed, Unscripted, scriptVars
    <2> QED
      BY <2>2, <2>3, <2>4, <2>5, BeforeKnows DEF Before
  <1>9. CASE OtherActivates(c)
    <2>0. Apart(c) /\ call[c].at = "other_activate"
      BY <1>9, UnscriptedApart DEF OtherActivates
    <2>1. CASE Return(c, call[c])
      BY <1>r, <2>0, <2>1 DEF Before
    <2>2. CASE Set(c, [call[c] EXCEPT !.at = "other_query", !.queries = 1])
      <3> DEFINE r == [call[c] EXCEPT !.at = "other_query", !.queries = 1]
      <3>1. /\ r.at = "other_query" /\ r.window = call[c].window
            /\ r.last = call[c].last /\ r.ok = call[c].ok /\ r.late = call[c].late
            /\ r.startedLate = call[c].startedLate /\ r.other = call[c].other
        BY <1>0 DEF Calls
      <3>2. Set(c, r)
        BY <2>2
      <3> HIDE DEF r
      <3>3. /\ call[c].window \in Windows /\ call[c].last = None
            /\ ~call[c].ok /\ ~call[c].startedLate
            /\ call[c].other /\ call[c].window \in OtherWindows
        BY <1>0, <2>0 DEF CallKnows, Before, Verifying
      <3>4. ~Satisfies(c, r.window, None)
        BY DEF Satisfies
      <3>5. QueryKnows(c)'
        BY <3>1, <3>2, SetIs DEF QueryKnows
      <3> QED
        BY <2>0, <3>1, <3>2, <3>3, <3>4, <3>5, VerifyKnows DEF Verifying
    <2> QED
      BY <1>9, <2>1, <2>2 DEF OtherActivates
  <1>10. CASE Queried(c)
    <2>1. /\ Ended(c, "querying") /\ Judge(c, Answer(c).ok, Answer(c).active) /\ Collected(c)
          /\ call[c].at = "querying"
      BY <1>10 DEF Queried, Ended
    <2>2. /\ Answer(c).ok \in BOOLEAN /\ Answer(c).active \in Windows \cup {None}
          /\ Known(Current(c))
      BY <1>0, <2>1, EndedType DEF Answers, At
    <2>3. /\ Satisfies(c, call[c].window, Answer(c).active) => seen[c]
          /\ call[c].startedLate /\ landed[c] /\ Answer(c).ok =>
                 Answer(c).active = call[c].window
      BY <1>0, <2>1, <2>2 DEF QueryKnows, Answer
    <2>4. Apart(c)
      BY <2>1, CollectedApart
    <2> QED
      BY <2>1, <2>2, <2>3, <2>4, JudgeKnows DEF Verifying
  <1>11. CASE OtherQueried(c)
    <2> DEFINE w == IF active \in OtherWindows THEN active ELSE None
    <2>1. (Judge(c, TRUE, w) \/ Judge(c, FALSE, None)) /\ call[c].at = "other_query"
      BY <1>11 DEF OtherQueried
    <2>2. w \in Windows \cup {None}
      BY FocusAssumption
    <2>3. /\ Satisfies(c, call[c].window, w) => seen[c]
          /\ landed[c] => w = call[c].window
      <3>1. /\ Satisfies(c, call[c].window, active) => seen[c]
            /\ landed[c] => active = call[c].window /\ call[c].window \in OtherWindows
        BY <1>0, <2>1 DEF CallKnows, Verifying
      <3>2. ~Satisfies(c, call[c].window, None)
        BY DEF Satisfies
      <3> QED
        BY <3>1, <3>2
    <2>4. ~Satisfies(c, call[c].window, None)
      BY DEF Satisfies
    <2>5. Apart(c)
      BY <1>11, UnscriptedApart DEF OtherQueried, Unscripted, scriptVars
    <2> HIDE DEF w
    <2>6. CASE Judge(c, TRUE, w)
      BY <2>1, <2>2, <2>3, <2>5, <2>6, JudgeKnows DEF Verifying
    <2>7. CASE Judge(c, FALSE, None)
      BY <2>1, <2>4, <2>5, <2>7, JudgeKnows DEF Verifying
    <2> QED
      BY <2>1, <2>6, <2>7
  <1>12. CASE QueryAgain(c)
    <2> DEFINE r == [call[c] EXCEPT !.queries = @ + 1, !.startedLate = call[c].late,
                                    !.missed = FALSE, !.stale = FALSE]
               q(at) == [r EXCEPT !.at = at]
    <2>1. /\ call[c].at = "sleeping" /\ (call[c].late \/ call[c].queries + 1 < MaxQueries)
          /\ IF r.other THEN Set(c, q("other_query")) /\ Unscripted
             ELSE Scripted(c, "windows", q("querying"))
      BY <1>12 DEF QueryAgain
    <2>2. call[c].queries + 1 \in 0..MaxQueries /\ call[c].late \in BOOLEAN
      <3>1. Bounded(call[c])
        BY <1>0 DEF CallInv
      <3>2. call[c].queries < MaxQueries /\ call[c].queries \in 0..MaxQueries
            /\ call[c].late \in BOOLEAN
        BY <1>0, <2>1, <3>1 DEF Bounded, Calls
      <3> QED
        BY <3>2, Bounds
    <2>3. /\ r \in Calls /\ r.startedLate = call[c].late /\ r.late = call[c].late
          /\ r.window = call[c].window /\ r.last = call[c].last /\ r.ok = call[c].ok
          /\ r.other = call[c].other
      BY <1>0, <2>2 DEF Calls
    <2> HIDE DEF r
    <2>4. ASSUME NEW at \in {"querying", "other_query"}
          PROVE  /\ q(at) \in Calls /\ q(at).at = at
                 /\ q(at).startedLate = r.startedLate /\ q(at).late = r.late
                 /\ q(at).window = r.window /\ q(at).last = r.last /\ q(at).ok = r.ok
                 /\ q(at).other = r.other
      BY <2>3, <2>4 DEF Calls, CallSteps, Verifying
    <2>5. /\ call[c].window \in Windows /\ ~call[c].ok
          /\ call[c].other => call[c].window \in OtherWindows
          /\ Satisfies(c, call[c].window, call[c].last) => seen[c]
      BY <1>0, <2>1 DEF CallKnows, Verifying
    <2>6. CASE r.other /\ Set(c, q("other_query")) /\ Unscripted
      <3> DEFINE z == q("other_query")
      <3>1. /\ z.at = "other_query" /\ z.startedLate = r.startedLate /\ z.late = r.late
            /\ z.window = r.window /\ z.last = r.last /\ z.ok = r.ok /\ z.other = r.other
        BY <2>4
      <3>2. Set(c, z)
        BY <2>6
      <3> HIDE DEF z, q
      <3>3. Apart(c)
        BY <2>6, UnscriptedApart DEF Unscripted, scriptVars
      <3>4. QueryKnows(c)'
        BY <3>1, <3>2, SetIs DEF QueryKnows
      <3> QED
        BY <2>3, <2>5, <2>6, <3>1, <3>2, <3>3, <3>4, VerifyKnows DEF Verifying
    <2>7. CASE ~r.other /\ Scripted(c, "windows", q("querying"))
      <3> DEFINE z == q("querying")
      <3>1. /\ z \in Calls /\ z.at = "querying"
            /\ z.startedLate = r.startedLate /\ z.late = r.late
            /\ z.window = r.window /\ z.last = r.last /\ z.ok = r.ok /\ z.other = r.other
        BY <2>4
      <3>2. Scripted(c, "windows", z)
        BY <2>7
      <3> HIDE DEF z, q
      <3>3. Apart(c) /\ QueryKnows(c)' /\ Set(c, z)
        BY <3>1, <3>2, BegunKnows DEF Scripted
      <3> QED
        BY <2>3, <2>5, <2>7, <3>1, <3>3, VerifyKnows DEF Verifying
    <2> QED
      BY <2>1, <2>6, <2>7
  <1> QED
    BY <1>1, <1>2, <1>3, <1>4, <1>5, <1>6, <1>7, <1>8, <1>9, <1>10, <1>11, <1>12 DEF Proceed

LEMMA CallStepKnows ==
    ASSUME IInv, FocusInv, Watch, NEW c \in Callers, CallStep(c)
    PROVE  FocusInv'
  <1>0. /\ call[c] \in Calls /\ CallKnows(c) /\ QueryKnows(c) /\ ScriptInv
        /\ landed[c] \in BOOLEAN /\ seen[c] \in BOOLEAN /\ None \notin Windows
    BY KnowsType
  <1>1. CASE Proceed(c)
    BY <1>1, ProceedKnows
  <1>2. CASE CutOff(c)
    <2> DEFINE r == [call[c] EXCEPT !.missed = TRUE, !.stale = TRUE]
               q == [r EXCEPT !.ok = Satisfies(c, r.window, r.last)]
    <2>1. r \in Calls /\ r.missed /\ r.window = call[c].window /\ r.last = call[c].last
      BY <1>0 DEF Calls
    <2>2. Conclude(c, r) /\ (Drop(Current(c)) \/ Unscripted)
      BY <1>2 DEF CutOff
    <2> HIDE DEF r
    <2>3. /\ q \in Calls /\ q.missed /\ q.window = r.window /\ q.last = r.last
          /\ q.ok = Satisfies(c, r.window, r.last)
      BY <2>1 DEF Calls, Satisfies
    <2>4. Return(c, q)
      BY <2>2 DEF Conclude
    <2> HIDE DEF q
    <2>5. Apart(c)
      BY <1>0, <2>2, DropApart, UnscriptedApart DEF Unscripted, scriptVars
    <2>6. Satisfies(c, q.window, q.last) => seen[c]
      BY <1>0, <2>1, <2>3 DEF CallKnows
    <2> QED
      BY <2>3, <2>4, <2>5, <2>6, ReturnKnows
  <1>3. CASE Deadline(c)
    <2> DEFINE r == [call[c] EXCEPT !.late = TRUE]
    <2>1. /\ r.at = call[c].at /\ r.window = call[c].window /\ r.last = call[c].last
          /\ r.ok = call[c].ok /\ r.other = call[c].other /\ r.late = TRUE
          /\ r.startedLate = call[c].startedLate
      BY <1>0 DEF Calls
    <2>2. /\ Set(c, r) /\ UNCHANGED <<scripts, tx>>
          /\ call[c].at \in Verifying /\ ~call[c].late
      BY <1>3 DEF Deadline, Unscripted, scriptVars
    <2> HIDE DEF r
    <2>3. /\ call[c].window \in Windows /\ ~call[c].ok /\ ~call[c].startedLate
          /\ call[c].at = "other_query" => call[c].other
          /\ call[c].other => call[c].window \in OtherWindows
          /\ Satisfies(c, call[c].window, call[c].last) => seen[c]
      BY <1>0, <2>2 DEF CallKnows, Verifying
    <2>4. call'[c] = r /\ (seen[c] => seen'[c])
      BY <2>2, SetIs, WatchEach DEF WatchOf
    <2>5. QueryKnows(c)'
      BY <1>0, <2>1, <2>2, <2>3, <2>4 DEF QueryKnows, Known, Current, Says
    <2> QED
      BY <2>1, <2>2, <2>3, <2>5, UnscriptedApart, VerifyKnows
  <1>4. CASE Cancel(c)
    <2> DEFINE r == [Idle EXCEPT !.at = "cancelled"]
    <2>1. /\ r.at = "cancelled" /\ r.window = None /\ r.last = None /\ ~r.ok /\ ~r.other
          /\ ~r.late /\ ~r.startedLate
      BY DEF Idle
    <2>2. Set(c, r) /\ (Drop(Current(c)) \/ Unscripted)
      BY <1>4 DEF Cancel
    <2> HIDE DEF r
    <2>3. call'[c] = r /\ ~Satisfies(c, None, None)
      BY <2>2, SetIs DEF Satisfies
    <2>4. CallKnows(c)' /\ QueryKnows(c)'
      BY <2>1, <2>3 DEF CallKnows, QueryKnows, Before, Verifying
    <2>5. Apart(c)
      BY <1>0, <2>2, DropApart, UnscriptedApart DEF Unscripted, scriptVars
    <2> QED
      BY <2>2, <2>4, <2>5, OneKnows
  <1> QED
    BY <1>1, <1>2, <1>3, <1>4 DEF CallStep

LEMMA InitKnows == Init => FocusInv
  <1> SUFFICES ASSUME Init, NEW c \in Callers PROVE CallKnows(c) /\ QueryKnows(c)
    BY DEF FocusInv
  <1>1. /\ call[c].at = "idle" /\ call[c].window = None /\ call[c].last = None
        /\ ~call[c].ok /\ ~call[c].other /\ ~call[c].late /\ ~call[c].startedLate
        /\ ~landed[c]
    BY DEF Init, Idle
  <1>2. ~Satisfies(c, None, None)
    BY DEF Satisfies
  <1> QED
    BY <1>1, <1>2 DEF CallKnows, QueryKnows, Verifying, Before

LEMMA NextKnows == IInv /\ FocusInv /\ [Next]_focusVars => FocusInv'
  <1> SUFFICES ASSUME IInv, FocusInv, [Next]_focusVars PROVE FocusInv'
    OBVIOUS
  <1>0. ScriptInv
    BY DEF IInv
  <1>1. CASE UNCHANGED focusVars
    BY <1>1 DEF focusVars, scriptVars, desktopVars, FocusInv, CallKnows, QueryKnows, Current,
                Says, Known
  <1>2. CASE Next
    <2>1. Watch
      BY <1>2 DEF Next
    <2>2. CASE \E c \in Callers : CallStep(c)
      BY <2>1, <2>2, CallStepKnows
    <2>3. CASE (\E t \in Scripts : Transact(t)) /\ UNCHANGED call
      BY <1>0, <2>1, <2>3, TransactHeard, StillKnow
    <2>4. CASE Kwin /\ UNCHANGED call
      BY <1>0, <2>1, <2>4, KwinHeard, StillKnow
    <2>5. CASE /\ UserSwitches \/ (\E w \in Windows : WindowCloses(w))
               /\ UNCHANGED call
      <3>1. UNCHANGED <<scripts, tx>>
        BY <2>5 DEF UserSwitches, WindowCloses
      <3>2. \A u : HeardOf(u)
        BY <3>1 DEF HeardOf
      <3> QED
        BY <2>1, <2>5, <3>1, <3>2, StillKnow
    <2> QED
      BY <1>2, <2>2, <2>3, <2>4, <2>5 DEF Next
  <1> QED
    BY <1>1, <1>2

(* A call reports focus only if a window its target allows had it at some time after the
   activation was answered; and if the window kept focus from before the deadline and the
   last query was answered, it does report it (wait_for_focused_window_with). *)
THEOREM FocusIsTold == Spec => []FocusAnswerIsTrue
  <1>1. FocusInv => FocusAnswerIsTrue
    BY DEF FocusInv, CallKnows, FocusAnswerIsTrue
  <1>2. Spec => []FocusInv
    BY InitKnows, NextKnows, Invariant, PTL DEF Spec
  <1> QED
    BY <1>1, <1>2, PTL
=============================================================================
