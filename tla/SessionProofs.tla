--------------------------- MODULE SessionProofs ----------------------------
(***************************************************************************)
(* An isolated worker session, for any number of bars and recalculations:  *)
(* no way out of a session loses its worker, whatever the worker and       *)
(* systemctl do, and parent and worker agree on every message and every    *)
(* intent.                                                                 *)
(***************************************************************************)
EXTENDS WorkerSession, TLAPS

\* Nothing a worker does starts another worker, and the process the parent
\* started ends by itself only after the worker.
LEMMA WorkerOnlyStops ==
  ASSUME WorkerStep
  PROVE  /\ UNCHANGED parent
         /\ wst' # wst => wst \in {"boot", "run"} /\ wst' \in {"run", "exited"}
         /\ proc' # proc => wst = "exited"
<1>1. CASE WorkerBoot
  BY <1>1 DEF WorkerBoot, parent
<1>2. CASE WorkerReceive
  BY <1>2 DEF WorkerReceive, parent
<1>3. CASE WorkerFails
  BY <1>3 DEF WorkerFails, parent
<1>4. CASE WorkerEof
  BY <1>4 DEF WorkerEof, parent
<1>5. CASE WorkerDies
  BY <1>5 DEF WorkerDies, parent
<1>6. CASE ProcessEnds
  BY <1>6 DEF ProcessEnds, parent
<1> QED
  BY <1>1, <1>2, <1>3, <1>4, <1>5, <1>6 DEF WorkerStep

\* The session starts contained: there is no worker yet.
THEOREM SessionInit == Init => Containment
BY DEF Init, Containment, WorkerContained

\* Every step of the parent, the worker or the operating system keeps the
\* session contained.
THEOREM SessionStep == Containment /\ [Next]_vars => Containment'
<1> SUFFICES ASSUME Containment, [Next]_vars PROVE Containment'
  OBVIOUS
<1> USE DEF Containment, WorkerContained
<1>1. CASE Spawn
  BY <1>1 DEF Spawn, Cleanup
<1>2. CASE ReadHello
  BY <1>2 DEF ReadHello, Cleanup
<1>3. CASE ReadTimeout
  BY <1>3 DEF ReadTimeout, Cleanup
<1>4. CASE KillAgain
  BY <1>4 DEF KillAgain, Cleanup
<1>5. CASE BarBegin
  BY <1>5 DEF BarBegin, Send, Fail
<1>6. CASE ReadResult
  BY <1>6 DEF ReadResult, Fail
<1>7. CASE ReadIntents
  BY <1>7 DEF ReadIntents, Fail
<1>8. CASE ApplyIntents
  BY <1>8 DEF ApplyIntents
<1>9. CASE Recalc
  BY <1>9 DEF Recalc, Send, Fail
<1>10. CASE BarCommit
  BY <1>10 DEF BarCommit, Send, Fail
<1>11. CASE EngineRaises
  BY <1>11 DEF EngineRaises, Fail
<1>12. CASE Finalize
  BY <1>12 DEF Finalize
<1>13. CASE WaitExit
  BY <1>13 DEF WaitExit, Cleanup
<1>14. CASE AbortSession
  BY <1>14 DEF AbortSession, Cleanup
<1>15. CASE CleanupStep
  <2>1. CASE KillProcess
    BY <2>1 DEF KillProcess
  <2>2. CASE StopUnit("stop", "show") \/ StopUnit("unit_kill", "verify")
    BY <2>2 DEF StopUnit
  <2>3. CASE ShowUnit("show", "unit_kill")
    BY <2>3 DEF ShowUnit
  <2>4. CASE ShowUnit("verify", "reap")
    BY <2>4, Zenon DEF ShowUnit
  <2>5. CASE Reap
    BY <2>5 DEF Reap
  <2>6. CASE AtExitEnds
    BY <2>6 DEF AtExitEnds
  <2> QED
    BY <1>15, <2>1, <2>2, <2>3, <2>4, <2>5, <2>6 DEF CleanupStep
<1>16. CASE AtExit
  BY <1>16 DEF AtExit
<1>17. CASE WorkerStep
  BY <1>17, WorkerOnlyStops DEF parent
<1>18. CASE UNCHANGED vars
  BY <1>18 DEF vars, parent
<1> QED
  BY <1>1, <1>2, <1>3, <1>4, <1>5, <1>6, <1>7, <1>8, <1>9, <1>10, <1>11, <1>12,
     <1>13, <1>14, <1>15, <1>16, <1>17, <1>18 DEF Next, ParentStep

\* _cleanup_worker_process and _stop_worker_unit: whatever way the session ends,
\* its worker has stopped or its unit is retained for another attempt, except
\* after finalize without a committed bar.
THEOREM SessionContained == Spec => []WorkerContained
<1>1. Containment => WorkerContained
  BY DEF Containment
<1> QED
  BY <1>1, SessionInit, SessionStep, PTL DEF Spec

-----------------------------------------------------------------------------
(* What the protocol of a session keeps                                    *)

Intents == [bar: Int, iter: Int, after: Int]

Messages ==
    [kind: Kinds, bar: Int, iter: Int, batch: Seq(Intents), seq: Nat, cause: Kinds \cup {"none"}]

SessionTypes ==
    /\ nbars \in 0 .. MaxBars /\ ppc \in Places /\ back \in {"over", "abort", "kill_again", "exit"}
    /\ bar \in 0 .. nbars /\ iter \in 0 .. MaxRecalc
    /\ commit \in BOOLEAN /\ closed \in BOOLEAN /\ retained \in BOOLEAN
    /\ outcome \in {"none", "ok", "error", "nothing_committed"}
    /\ proc \in {"none", "running", "exited"} /\ wst \in {"none", "boot", "run", "exited"}
    /\ wbar \in None .. MaxBars - 1 /\ committed \in 0 .. MaxBars
    /\ sent = Len(tape)

(* The messages and the intents.                                           *)
Boxes ==
    /\ pt \in Seq(Messages) /\ wt \in Seq(Messages)
    /\ down \in Seq(Messages) /\ up \in Seq(Messages)
    /\ tape \in Seq(Intents) /\ pending \in Seq(Intents)
    /\ applied \in Seq([intent: Intents, bar: Int, iter: Int])

Requests == {"BAR_BEGIN", "RECALC_REQUEST"}
FromParent == Requests \cup {"LOAD_ARTIFACT", "INIT_RUN", "BROKER_EVENT_BATCH", "BAR_COMMIT",
                             "FINALIZE", "ABORT"}
FromWorker == {"HELLO", "RECALC_RESULT", "INTENT_BATCH"}

(* Every message of a transcript continues what is before it.              *)
Link(t, n) ==
    /\ t[n].seq = n - 1
    /\ IF n = 1 THEN t[n].kind = "HELLO" /\ t[n].cause = "none"
       ELSE t[n].kind \in AllowedAfter(t[n - 1].kind) /\ t[n].cause = t[n - 1].kind
Chained(t) == \A n \in 1 .. Len(t) : Link(t, n)

(* What is recorded in p but for an ABORT at its end.                      *)
Core(p) == IF LastKind(p) = "ABORT" THEN Len(p) - 1 ELSE Len(p)

(* The worker is behind: what it has not received is in its pipe, but for  *)
(* an ABORT that could not be sent.                                        *)
Behind(p, w, d) ==
    /\ \/ Len(p) = Len(w) + Len(d)
       \/ LastKind(p) = "ABORT" /\ Len(p) = Len(w) + Len(d) + 1
    /\ \A n \in 1 .. Len(w) : w[n] = p[n]
    /\ \A n \in 1 .. Len(d) : d[n] = p[Len(w) + n]

(* The worker is ahead: what the parent has not read is in its pipe.       *)
Ahead(p, w, u) ==
    /\ Len(w) = Core(p) + Len(u)
    /\ \A n \in 1 .. Core(p) : w[n] = p[n]
    /\ \A n \in 1 .. Len(u) : u[n] = w[Core(p) + n] /\ u[n].kind \in FromWorker

(* The transcripts p and w and the pipes d and u between them, while the   *)
(* worker is in state x.                                                   *)
PipesOK(p, w, d, u, x) ==
    /\ Chained(p) /\ Chained(w)
    /\ \A n \in 1 .. Len(p) : n <= Len(w) => p[n] = w[n] \/ p[n].kind = "ABORT"
    /\ u # <<>> => Ahead(p, w, u) \/ (x = "exited" /\ Len(u) = 1 /\ u[1].kind = "error")
    /\ x = "run" => w # <<>> /\ IF u = <<>> THEN Behind(p, w, d) ELSE d = <<>>

(* Nothing was said before the worker runs.                                *)
Silence ==
    wst \in {"none", "boot"} =>
      /\ pt = <<>> /\ wt = <<>> /\ down = <<>> /\ up = <<>> /\ tape = <<>>
      /\ bar = 0 /\ committed = 0 /\ wbar = None

Talking == {"engine", "apply", "decide"}
Opened == Talking \cup {"spawn", "hello", "intents", "result"}

NothingAsked == up = <<>> /\ \A n \in 1 .. Len(down) : down[n].kind \notin Requests

(* Where the parent is and what it has recorded.                           *)
ParentOK ==
    /\ ppc \in Opened => ~closed
    /\ ppc \in {"spawn", "hello"} => pt = <<>> /\ applied = <<>> /\ iter = 0
    /\ ppc = "spawn" => wst = "none"
    /\ ppc = "abort" /\ ~closed => pt # <<>>
    /\ ppc = "engine" => LastKind(pt) \in {"INIT_RUN", "BAR_COMMIT"} /\ iter = 0
    /\ ppc = "intents" => LastKind(pt) \in {"BAR_BEGIN", "RECALC_RESULT"}
    /\ ppc = "result" => LastKind(pt) = "RECALC_REQUEST"
    /\ ppc \in {"apply", "decide"} => LastKind(pt) = "INTENT_BATCH" /\ (wst = "run" => down = <<>>)
    /\ ppc \in {"intents", "result", "apply", "decide"} => bar < nbars
    /\ ppc \in Talking => Len(wt) <= Len(pt)
    /\ (ppc \in Talking \/ (ppc = "abort" /\ ~closed)) /\ wst = "run" => NothingAsked

(* Where the worker is: a request it has not received is the last message  *)
(* and about the bar and recalculation the parent is at, and the bars it   *)
(* has committed are those before, but for a BAR_COMMIT on its way.        *)
WorkerOK ==
    wst = "run" =>
      /\ committed + (IF down # <<>> /\ down[1].kind = "BAR_COMMIT" THEN 1 ELSE 0) = bar
      /\ wbar # None => wbar = committed /\ committed < nbars
      /\ LastKind(wt) \in {"INTENT_BATCH", "BROKER_EVENT_BATCH"} => wbar # None
      /\ \A n \in 1 .. Len(down) :
           /\ down[n].kind \in FromParent
           /\ down[n].kind = "BAR_COMMIT" => n = 1
           /\ down[n].kind \in Requests =>
                n = Len(down) /\ down[n].bar = bar /\ down[n].iter = iter /\ bar < nbars

(* b is what the engine has not applied of the tape, and all of it is for  *)
(* the callback the engine is in.                                          *)
Rest(b) ==
    /\ Len(tape) = Len(applied) + Len(b)
    /\ \A n \in 1 .. Len(b) :
         b[n] = tape[Len(applied) + n] /\ b[n].bar = bar /\ b[n].iter = iter /\ b[n].after = bar

Order ==
    /\ IntentsInOrder
    /\ ppc \in {"spawn", "hello", "engine", "decide"} => Len(tape) = Len(applied)
    /\ ppc = "apply" => Rest(pending)
    /\ ppc \in {"intents", "result"} =>
         IF up # <<>> /\ up[Len(up)].kind = "INTENT_BATCH" THEN Rest(up[Len(up)].batch)
         ELSE Len(tape) = Len(applied)

ProtocolInv ==
    /\ SessionTypes /\ Boxes /\ PipesOK(pt, wt, down, up, wst) /\ Silence
    /\ ParentOK /\ WorkerOK /\ Order
-----------------------------------------------------------------------------
(* Sequences of messages                                                   *)

LEMMA Appended ==
    ASSUME NEW S, NEW s \in Seq(S), NEW e \in S
    PROVE  /\ Append(s, e) \in Seq(S) /\ Len(Append(s, e)) = Len(s) + 1 /\ Append(s, e) # <<>>
           /\ \A n \in 1 .. Len(s) : Append(s, e)[n] = s[n]
           /\ Append(s, e)[Len(s) + 1] = e
OBVIOUS

LEMMA Headed ==
    ASSUME NEW S, NEW s \in Seq(S), s # <<>>
    PROVE  /\ Len(s) \in Nat \ {0} /\ Head(s) = s[1] /\ Head(s) \in S
           /\ Tail(s) \in Seq(S) /\ Len(Tail(s)) = Len(s) - 1
           /\ \A n \in 1 .. Len(s) - 1 : Tail(s)[n] = s[n + 1]
OBVIOUS

LEMMA JoinedOne ==
    ASSUME NEW S, NEW s \in Seq(S), NEW e \in S
    PROVE  s \o <<e>> = Append(s, e)
OBVIOUS

LEMMA JoinedTwo ==
    ASSUME NEW S, NEW s \in Seq(S), NEW e \in S, NEW f \in S
    PROVE  s \o <<e, f>> = Append(Append(s, e), f)
OBVIOUS

LEMMA EmptyLen ==
    ASSUME NEW S, NEW s \in Seq(S)
    PROVE  Len(s) \in Nat /\ (s = <<>> <=> Len(s) = 0)
OBVIOUS

(* The kind of the last message.                                           *)
LEMMA LastKindIs ==
    ASSUME NEW t \in Seq(Messages)
    PROVE  /\ LastKind(t) \in Kinds \cup {"none"}
           /\ t # <<>> => LastKind(t) = t[Len(t)].kind
           /\ LastKind(t) = "none" <=> t = <<>>
<1>1. CASE t = <<>>
  BY <1>1 DEF LastKind
<1>2. CASE t # <<>>
  <2>1. Len(t) \in 1 .. Len(t)
    BY <1>2, EmptyLen
  <2>2. t[Len(t)] \in Messages
    BY <2>1
  <2>3. t[Len(t)].kind \in Kinds
    BY <2>2 DEF Messages
  <2>4. t[Len(t)].kind # "none"
    BY <2>3 DEF Kinds
  <2> QED BY <1>2, <2>3, <2>4 DEF LastKind
<1> QED BY <1>1, <1>2

LEMMA LastKindNew ==
    ASSUME NEW t \in Seq(Messages), NEW m \in Messages
    PROVE  LastKind(Append(t, m)) = m.kind
BY Appended DEF LastKind

LEMMA MessagePlain ==
    ASSUME NEW t \in Seq(Messages), NEW k \in Kinds, NEW b \in Int, NEW i \in Int,
           NEW m, m = Message(t, k, b, i, <<>>)
    PROVE  /\ m \in Messages /\ m.kind = k /\ m.bar = b /\ m.iter = i
           /\ MayFollow(t, k) => Accepts(t, m)
<1>1. LastKind(t) \in Kinds \cup {"none"} /\ Len(t) \in Nat /\ <<>> \in Seq(Intents)
  BY LastKindIs
<1> QED BY <1>1 DEF Message, Messages, Accepts

LEMMA ChainGrows ==
    ASSUME NEW t \in Seq(Messages), NEW m \in Messages, Chained(t), Accepts(t, m)
    PROVE  Chained(Append(t, m))
<1> DEFINE u == Append(t, m)
<1>1. /\ Len(u) = Len(t) + 1 /\ u[Len(t) + 1] = m /\ \A n \in 1 .. Len(t) : u[n] = t[n]
      /\ Len(t) \in Nat
  BY Appended
<1>2. t = <<>> <=> Len(t) = 0
  BY EmptyLen
<1> HIDE DEF u
<1>3. ASSUME NEW n \in 1 .. Len(t) PROVE Link(u, n)
  <2>1. Link(t, n) /\ u[n] = t[n] /\ (n # 1 => u[n - 1] = t[n - 1])
    BY <1>1 DEF Chained
  <2> QED BY <2>1 DEF Link
<1>4. Link(u, Len(t) + 1)
  <2>1. CASE t = <<>>
    BY <2>1, <1>1, <1>2 DEF Link, Accepts, MayFollow, LastKind
  <2>2. CASE t # <<>>
    BY <2>2, <1>1, <1>2 DEF Link, Accepts, MayFollow, LastKind
  <2> QED BY <2>1, <2>2
<1>5. Chained(u)
  BY <1>1, <1>3, <1>4 DEF Chained
<1> QED BY <1>5 DEF u

(* A transcript that another one continues accepts the next message of it. *)
LEMMA AcceptsNext ==
    ASSUME NEW s \in Seq(Messages), NEW t \in Seq(Messages), Chained(t), Len(s) < Len(t),
           \A n \in 1 .. Len(s) : s[n] = t[n]
    PROVE  Accepts(s, t[Len(s) + 1])
<1>1. Link(t, Len(s) + 1) /\ Len(s) \in Nat
  BY DEF Chained
<1>2. CASE s = <<>>
  BY <1>1, <1>2 DEF Link, Accepts, MayFollow, LastKind
<1>3. CASE s # <<>>
  <2>1. Len(s) # 0 /\ LastKind(s) = t[Len(s)].kind
    BY <1>3 DEF LastKind
  <2> QED BY <1>1, <1>3, <2>1 DEF Link, Accepts, MayFollow
<1> QED BY <1>2, <1>3

-----------------------------------------------------------------------------
(* Transcripts and pipes                                                   *)

(* Nobody continues a transcript that ends with an ABORT.                  *)
LEMMA AbortIsLast ==
    ASSUME NEW t, NEW m, Accepts(t, m), t # <<>>
    PROVE  LastKind(t) # "ABORT"
BY DEF Accepts, MayFollow, AllowedAfter

(* The parent records and sends m; a worker that has exited need not       *)
(* receive it.                                                             *)
LEMMA SendKeeps ==
    ASSUME NEW p \in Seq(Messages), NEW w \in Seq(Messages), NEW d \in Seq(Messages),
           NEW u \in Seq(Messages), NEW x, NEW m \in Messages, NEW e \in Seq(Messages),
           PipesOK(p, w, d, u, x), Accepts(p, m), LastKind(p) # "ABORT",
           Len(w) <= Len(p), x = "run" => u = <<>> /\ e = Append(d, m)
    PROVE  PipesOK(Append(p, m), w, e, u, x)
<1> DEFINE q == Append(p, m)
<1>1. /\ q \in Seq(Messages) /\ Len(q) = Len(p) + 1 /\ q[Len(p) + 1] = m
      /\ \A n \in 1 .. Len(p) : q[n] = p[n]
      /\ Len(p) \in Nat /\ Len(w) \in Nat /\ Len(d) \in Nat /\ Len(u) \in Nat
  BY Appended
<1>2. Chained(q) /\ Chained(w)
  BY ChainGrows DEF PipesOK
<1> HIDE DEF q
<1>3. \A n \in 1 .. Len(q) : n <= Len(w) => q[n] = w[n] \/ q[n].kind = "ABORT"
  BY <1>1 DEF PipesOK
<1>4. u # <<>> => (x = "exited" /\ Len(u) = 1 /\ u[1].kind = "error")
  <2>1. u # <<>> => Len(u) > 0
    BY EmptyLen
  <2>2. ~(u # <<>> /\ Ahead(p, w, u))
    BY <2>1, <1>1 DEF Ahead, Core
  <2> QED BY <2>2 DEF PipesOK
<1>5. x = "run" => w # <<>> /\ IF u = <<>> THEN Behind(q, w, e) ELSE e = <<>>
  <2> SUFFICES ASSUME x = "run" PROVE w # <<>> /\ u = <<>> /\ Behind(q, w, e)
    OBVIOUS
  <2>1. w # <<>> /\ u = <<>> /\ Behind(p, w, d) /\ e = Append(d, m)
    BY DEF PipesOK
  <2>2. /\ Len(e) = Len(d) + 1 /\ e[Len(d) + 1] = m
        /\ \A n \in 1 .. Len(d) : e[n] = d[n]
    BY <2>1, Appended
  <2>3. Len(p) = Len(w) + Len(d)
    BY <2>1 DEF Behind
  <2>4. \A n \in 1 .. Len(w) : w[n] = q[n]
    BY <2>1, <2>3, <1>1 DEF Behind
  <2>5. ASSUME NEW n \in 1 .. Len(e) PROVE e[n] = q[Len(w) + n]
    <3>1. CASE n = Len(d) + 1
      BY <3>1, <2>2, <2>3, <1>1
    <3>2. CASE n # Len(d) + 1
      <4>1. n \in 1 .. Len(d) /\ Len(w) + n \in 1 .. Len(p)
        BY <3>2, <2>2, <2>3, <1>1
      <4> QED BY <4>1, <2>1, <2>2, <1>1 DEF Behind
    <3> QED BY <3>1, <3>2
  <2> QED BY <2>1, <2>2, <2>3, <2>4, <2>5, <1>1 DEF Behind
<1> QED BY <1>2, <1>3, <1>4, <1>5 DEF PipesOK, q

(* The parent records an ABORT that it cannot send.                        *)
LEMMA AbortKeeps ==
    ASSUME NEW p \in Seq(Messages), NEW w \in Seq(Messages), NEW d \in Seq(Messages),
           NEW u \in Seq(Messages), NEW x, NEW m \in Messages,
           PipesOK(p, w, d, u, x), Accepts(p, m), m.kind = "ABORT", p # <<>>
    PROVE  PipesOK(Append(p, m), w, d, u, x)
<1> DEFINE q == Append(p, m)
<1>1. /\ q \in Seq(Messages) /\ Len(q) = Len(p) + 1 /\ q[Len(p) + 1] = m
      /\ \A n \in 1 .. Len(p) : q[n] = p[n]
      /\ Len(p) \in Nat /\ Len(w) \in Nat /\ Len(d) \in Nat /\ Len(u) \in Nat
  BY Appended
<1>2. Chained(q) /\ Chained(w)
  BY ChainGrows DEF PipesOK
<1>3. Core(q) = Core(p) /\ Core(p) = Len(p) /\ LastKind(q) = "ABORT" /\ LastKind(p) # "ABORT"
  BY <1>1, LastKindNew, AbortIsLast DEF Core
<1> HIDE DEF q
<1>4. \A n \in 1 .. Len(q) : n <= Len(w) => q[n] = w[n] \/ q[n].kind = "ABORT"
  BY <1>1 DEF PipesOK
<1>5. Ahead(p, w, u) => Ahead(q, w, u)
  BY <1>1, <1>3 DEF Ahead
<1>6. Behind(p, w, d) => Behind(q, w, d)
  <2> SUFFICES ASSUME Behind(p, w, d) PROVE Behind(q, w, d)
    OBVIOUS
  <2>1. Len(p) = Len(w) + Len(d)
    BY <1>3 DEF Behind
  <2>2. \A n \in 1 .. Len(w) : n \in 1 .. Len(p) /\ w[n] = p[n]
    BY <1>1, <2>1 DEF Behind
  <2>3. \A n \in 1 .. Len(d) : Len(w) + n \in 1 .. Len(p) /\ d[n] = p[Len(w) + n]
    BY <1>1, <2>1 DEF Behind
  <2>4. Len(q) = Len(w) + Len(d) + 1
    BY <1>1, <2>1
  <2> QED BY <1>1, <1>3, <2>2, <2>3, <2>4 DEF Behind
<1> QED BY <1>2, <1>4, <1>5, <1>6 DEF PipesOK, q

(* The next message from the worker, if it is no error line, continues the *)
(* transcript of the parent, which records it.                             *)
LEMMA ReadKeeps ==
    ASSUME NEW p \in Seq(Messages), NEW w \in Seq(Messages), NEW d \in Seq(Messages),
           NEW u \in Seq(Messages), NEW x, PipesOK(p, w, d, u, x), LastKind(p) # "ABORT",
           u # <<>>, Head(u).kind # "error"
    PROVE  /\ Accepts(p, Head(u)) /\ Head(u).kind \in FromWorker
           /\ PipesOK(Append(p, Head(u)), w, d, Tail(u), x)
           /\ Len(w) = Len(p) + Len(u)
           /\ Head(u).kind \in {"HELLO", "INTENT_BATCH"} => Tail(u) = <<>> /\ Len(u) = 1
<1> DEFINE q == Append(p, Head(u))
           v == Tail(u)
<1>1. /\ Len(u) \in Nat \ {0} /\ Head(u) = u[1] /\ Head(u) \in Messages
      /\ v \in Seq(Messages) /\ Len(v) = Len(u) - 1
      /\ \A n \in 1 .. Len(u) - 1 : v[n] = u[n + 1]
  BY Headed
<1>2. /\ q \in Seq(Messages) /\ Len(q) = Len(p) + 1 /\ q[Len(p) + 1] = Head(u)
      /\ \A n \in 1 .. Len(p) : q[n] = p[n]
      /\ Len(p) \in Nat /\ Len(w) \in Nat /\ Len(d) \in Nat
  BY <1>1, Appended
<1>3. v = <<>> <=> Len(u) = 1
  <2> HIDE DEF v
  <2>1. v = <<>> <=> Len(v) = 0
    BY <1>1, EmptyLen
  <2> QED BY <1>1, <2>1
<1>4. /\ Len(w) = Len(p) + Len(u)
      /\ \A n \in 1 .. Len(p) : w[n] = p[n]
      /\ \A n \in 1 .. Len(u) : u[n] = w[Len(p) + n] /\ u[n].kind \in FromWorker
  BY <1>1 DEF PipesOK, Ahead, Core
<1>5. Head(u) = w[Len(p) + 1] /\ Head(u).kind \in FromWorker
  BY <1>1, <1>4
<1>6. Accepts(p, Head(u))
  BY <1>1, <1>2, <1>4, <1>5, AcceptsNext DEF PipesOK
<1>7. LastKind(q) = Head(u).kind /\ LastKind(q) # "ABORT"
  BY <1>1, <1>5, LastKindNew DEF FromWorker
<1>8. Chained(q) /\ Chained(w)
  BY <1>1, <1>6, ChainGrows DEF PipesOK
<1> HIDE DEF q, v
<1>9. ASSUME NEW n \in 1 .. Len(q) PROVE q[n] = w[n]
  <2>1. CASE n = Len(p) + 1
    BY <2>1, <1>2, <1>5
  <2>2. CASE n # Len(p) + 1
    <3>1. n \in 1 .. Len(p)
      BY <2>2, <1>2
    <3> QED BY <3>1, <1>2, <1>4
  <2> QED BY <2>1, <2>2
<1>10. v # <<>> => Ahead(q, w, v)
  <2>1. Core(q) = Len(q)
    BY <1>7 DEF Core
  <2>2. Len(w) = Len(q) + Len(v)
    BY <1>1, <1>2, <1>4
  <2>3. ASSUME NEW n \in 1 .. Len(v) PROVE v[n] = w[Len(q) + n] /\ v[n].kind \in FromWorker
    <3>1. n + 1 \in 1 .. Len(u) /\ v[n] = u[n + 1] /\ Len(p) + (n + 1) = Len(q) + n
      BY <1>1, <1>2
    <3> QED BY <3>1, <1>4
  <2> QED BY <1>9, <2>1, <2>2, <2>3 DEF Ahead
<1>11. x = "run" => w # <<>> /\ IF v = <<>> THEN Behind(q, w, d) ELSE d = <<>>
  <2> SUFFICES ASSUME x = "run" PROVE w # <<>> /\ d = <<>> /\ (v = <<>> => Behind(q, w, d))
    OBVIOUS
  <2>1. w # <<>> /\ d = <<>>
    BY DEF PipesOK
  <2>2. Len(d) = 0
    BY <2>1
  <2>3. v = <<>> => Len(q) = Len(w) + Len(d)
    <3>1. Len(u) = 1 => Len(q) = Len(w) + Len(d)
      BY <2>2, <1>2, <1>4
    <3> QED BY <3>1, <1>3, Zenon
  <2> QED BY <1>9, <2>1, <2>2, <2>3, <1>2 DEF Behind
<1>12. PipesOK(q, w, d, v, x)
  BY <1>8, <1>9, <1>10, <1>11, <1>2, <1>4, <1>1 DEF PipesOK
<1>13. Head(u).kind \in {"HELLO", "INTENT_BATCH"} => Len(u) = 1
  <2> SUFFICES ASSUME Head(u).kind \in {"HELLO", "INTENT_BATCH"}, Len(u) # 1 PROVE FALSE
    OBVIOUS
  <2>1. Len(p) + 2 \in 1 .. Len(w) /\ 2 \in 1 .. Len(u) /\ (Len(p) + 2) - 1 = Len(p) + 1 /\ Len(p) + 2 # 1
    BY <1>1, <1>2, <1>4
  <2>2. w[Len(p) + 2].kind \in AllowedAfter(w[Len(p) + 1].kind)
    BY <2>1 DEF PipesOK, Chained, Link
  <2>3. w[Len(p) + 2].kind \in FromWorker
    BY <2>1, <1>4
  <2> QED BY <2>2, <2>3, <1>5 DEF AllowedAfter, FromWorker
<1> QED BY <1>3, <1>4, <1>5, <1>6, <1>12, <1>13 DEF q, v

(* The worker, which is behind, receives the next message.                 *)
LEMMA TakeKeeps ==
    ASSUME NEW p \in Seq(Messages), NEW w \in Seq(Messages), NEW d \in Seq(Messages),
           NEW x \in {"run", "exited"}, PipesOK(p, w, d, <<>>, "run"), d # <<>>
    PROVE  /\ LastKind(p) # "ABORT" => Accepts(w, Head(d))
           /\ Accepts(w, Head(d)) => PipesOK(p, Append(w, Head(d)), Tail(d), <<>>, x)
<1> DEFINE y == Append(w, Head(d))
           e == Tail(d)
<1>1. /\ Len(d) \in Nat \ {0} /\ Head(d) = d[1] /\ Head(d) \in Messages
      /\ e \in Seq(Messages) /\ Len(e) = Len(d) - 1
      /\ \A n \in 1 .. Len(d) - 1 : e[n] = d[n + 1]
  BY Headed
<1>2. /\ y \in Seq(Messages) /\ Len(y) = Len(w) + 1 /\ y[Len(w) + 1] = Head(d) /\ y # <<>>
      /\ \A n \in 1 .. Len(w) : y[n] = w[n]
      /\ Len(p) \in Nat /\ Len(w) \in Nat
  BY <1>1, Appended
<1>3. /\ Behind(p, w, d) /\ Chained(p) /\ Chained(w)
  BY DEF PipesOK
<1>4. /\ Len(w) + Len(d) <= Len(p)
      /\ \A n \in 1 .. Len(w) : w[n] = p[n]
      /\ \A n \in 1 .. Len(d) : d[n] = p[Len(w) + n]
  BY <1>1, <1>2, <1>3 DEF Behind
<1>5. Head(d) = p[Len(w) + 1] /\ Len(w) < Len(p)
  BY <1>1, <1>2, <1>4
<1>6. Accepts(w, Head(d))
  BY <1>2, <1>3, <1>4, <1>5, AcceptsNext
<1>7. Chained(y)
  BY <1>1, <1>3, <1>6, ChainGrows
<1> HIDE DEF y, e
<1>8. ASSUME NEW n \in 1 .. Len(y) PROVE y[n] = p[n]
  <2>1. CASE n = Len(w) + 1
    BY <2>1, <1>2, <1>5
  <2>2. CASE n # Len(w) + 1
    <3>1. n \in 1 .. Len(w)
      BY <2>2, <1>2
    <3> QED BY <3>1, <1>2, <1>4
  <2> QED BY <2>1, <2>2
<1>9. \A n \in 1 .. Len(p) : n <= Len(y) => p[n] = y[n] \/ p[n].kind = "ABORT"
  BY <1>8, <1>2
<1>10. Behind(p, y, e)
  <2>1. Len(y) + Len(e) = Len(w) + Len(d)
    BY <1>1, <1>2
  <2>2. ASSUME NEW n \in 1 .. Len(e) PROVE e[n] = p[Len(y) + n]
    <3>1. n + 1 \in 1 .. Len(d) /\ e[n] = d[n + 1] /\ Len(w) + (n + 1) = Len(y) + n
      BY <1>1, <1>2
    <3> QED BY <3>1, <1>4
  <2>3. Len(y) + Len(e) + 1 = Len(w) + Len(d) + 1
    BY <2>1
  <2> QED BY <1>3, <1>8, <2>1, <2>2, <2>3 DEF Behind
<1>11. PipesOK(p, y, e, <<>>, x)
  BY <1>2, <1>3, <1>7, <1>9, <1>10 DEF PipesOK
<1> QED BY <1>6, <1>11 DEF y, e

(* The worker, with nothing left to receive, records and sends an answer.  *)
LEMMA ReplyKeeps ==
    ASSUME NEW p \in Seq(Messages), NEW w \in Seq(Messages), NEW u \in Seq(Messages),
           NEW m \in Messages, PipesOK(p, w, <<>>, u, "run"), Accepts(w, m),
           m.kind \in FromWorker
    PROVE  PipesOK(p, Append(w, m), <<>>, Append(u, m), "run")
<1> DEFINE y == Append(w, m)
           v == Append(u, m)
<1>1. /\ y \in Seq(Messages) /\ Len(y) = Len(w) + 1 /\ y[Len(w) + 1] = m /\ y # <<>>
      /\ \A n \in 1 .. Len(w) : y[n] = w[n]
      /\ Len(p) \in Nat /\ Len(w) \in Nat
  BY Appended
<1>2. /\ v \in Seq(Messages) /\ Len(v) = Len(u) + 1 /\ v[Len(u) + 1] = m /\ v # <<>>
      /\ \A n \in 1 .. Len(u) : v[n] = u[n]
      /\ Len(u) \in Nat
  BY Appended
<1>3. Chained(p) /\ Chained(w) /\ Chained(y) /\ w # <<>>
  BY ChainGrows DEF PipesOK
<1>4. LastKind(w) # "ABORT" /\ LastKind(w) = w[Len(w)].kind /\ Len(w) # 0
  BY <1>3, AbortIsLast, LastKindIs, EmptyLen
<1>5. (LastKind(p) = "ABORT" => Len(p) # 0 /\ p[Len(p)].kind = "ABORT") /\ Core(p) \in Nat
  <2>1. LastKind(p) = "ABORT" => p # <<>>
    BY DEF LastKind
  <2>2. LastKind(p) = "ABORT" => Len(p) # 0 /\ p[Len(p)].kind = "ABORT"
    BY <2>1, LastKindIs, EmptyLen
  <2> QED BY <1>1, <2>2 DEF Core
<1> HIDE DEF y, v
<1>6. /\ Len(w) = Core(p) + Len(u)
      /\ \A n \in 1 .. Core(p) : w[n] = p[n]
      /\ \A n \in 1 .. Len(u) : u[n] = w[Core(p) + n] /\ u[n].kind \in FromWorker
  <2>1. CASE u # <<>>
    BY <2>1 DEF PipesOK, Ahead
  <2>2. CASE u = <<>>
    <3>1. Behind(p, w, <<>>) /\ Len(u) = 0
      BY <2>2 DEF PipesOK
    <3>2. Len(p) = Len(w) => LastKind(p) # "ABORT"
      BY <3>1, <1>1, <1>4, <1>5, SMTT(30) DEF Behind
    <3>3. Len(w) = Core(p)
      BY <3>1, <3>2, <1>1 DEF Behind, Core
    <3> QED BY <3>1, <3>3, <1>1 DEF Behind
  <2> QED BY <2>1, <2>2
<1>7. Ahead(p, y, v)
  <2>1. Len(y) = Core(p) + Len(v)
    BY <1>1, <1>2, <1>5, <1>6
  <2>2. ASSUME NEW n \in 1 .. Core(p) PROVE y[n] = p[n]
    <3>1. n \in 1 .. Len(w)
      BY <1>1, <1>2, <1>5, <1>6
    <3> QED BY <3>1, <1>1, <1>6
  <2>3. ASSUME NEW n \in 1 .. Len(v) PROVE v[n] = y[Core(p) + n] /\ v[n].kind \in FromWorker
    <3>1. CASE n = Len(u) + 1
      <4>1. Core(p) + n = Len(w) + 1
        BY <3>1, <1>2, <1>5, <1>6
      <4> QED BY <3>1, <4>1, <1>1, <1>2
    <3>2. CASE n # Len(u) + 1
      <4>1. n \in 1 .. Len(u) /\ Core(p) + n \in 1 .. Len(w)
        BY <3>2, <1>1, <1>2, <1>5, <1>6
      <4> QED BY <4>1, <1>1, <1>2, <1>6
    <3> QED BY <3>1, <3>2
  <2> QED BY <2>1, <2>2, <2>3 DEF Ahead
<1>8. ASSUME NEW n \in 1 .. Len(p), n <= Len(y) PROVE p[n] = y[n] \/ p[n].kind = "ABORT"
  <2>1. CASE n \in 1 .. Core(p)
    BY <2>1, <1>7 DEF Ahead
  <2>2. CASE n \notin 1 .. Core(p)
    <3>1. LastKind(p) = "ABORT" /\ n = Len(p)
      BY <2>2, <1>1 DEF Core
    <3> QED BY <3>1, <1>5
  <2> QED BY <2>1, <2>2, Zenon
<1> QED BY <1>1, <1>2, <1>3, <1>7, <1>8 DEF PipesOK, y, v

(* The worker exits, with an error line or without.                        *)
LEMMA ExitKeeps ==
    ASSUME NEW p, NEW w, NEW d, NEW e, NEW u, NEW x, PipesOK(p, w, d, u, x)
    PROVE  PipesOK(p, w, e, u, "exited")
BY DEF PipesOK

LEMMA ErrorKeeps ==
    ASSUME NEW p, NEW w, NEW d, NEW e, NEW m \in Messages, NEW x,
           PipesOK(p, w, d, <<>>, x), m.kind = "error"
    PROVE  PipesOK(p, w, e, Append(<<>>, m), "exited")
<1>1. Append(<<>>, m) = <<m>>
  OBVIOUS
<1>2. Len(<<m>>) = 1 /\ <<m>>[1] = m
  OBVIOUS
<1>3. PipesOK(p, w, e, <<m>>, "exited")
  BY <1>2 DEF PipesOK
<1> QED BY <1>1, <1>3

(* Only the pipe of a running worker matters.                              *)
LEMMA DeafKeeps ==
    ASSUME NEW p, NEW w, NEW d, NEW e, NEW u, NEW x, PipesOK(p, w, d, u, x), x # "run"
    PROVE  PipesOK(p, w, e, u, x)
BY DEF PipesOK

-----------------------------------------------------------------------------
(* The steps of a session                                                  *)

LEMMA ProtocolTypes == SessionTypes /\ Boxes => TypeOK
<1> SUFFICES ASSUME SessionTypes, Boxes PROVE TypeOK
  OBVIOUS
<1>1. ASSUME NEW q \in Seq(Messages), NEW n \in 1 .. Len(q) PROVE q[n].kind \in Kinds
  <2>1. q[n] \in Messages
    OBVIOUS
  <2> QED BY <2>1 DEF Messages
<1>2. \A q \in {pt, wt, down, up} : \A n \in 1 .. Len(q) : q[n].kind \in Kinds
  BY <1>1, Zenon DEF Boxes
<1> QED BY <1>2, Zenon DEF TypeOK, SessionTypes

LEMMA ProtocolStarts == Init => ProtocolInv
<1> SUFFICES ASSUME Init PROVE ProtocolInv
  OBVIOUS
<1>1. SessionTypes
  <2>1. bar \in 0 .. nbars /\ iter \in 0 .. MaxRecalc /\ committed \in 0 .. MaxBars
        /\ wbar \in None .. MaxBars - 1
    BY SessionAssumption DEF Init, None
  <2>2. sent = Len(tape)
    BY DEF Init
  <2> QED BY <2>1, <2>2, Zenon DEF Init, SessionTypes, Places
<1>2. Boxes
  BY DEF Init, Boxes
<1>3. PipesOK(pt, wt, down, up, wst)
  BY DEF Init, PipesOK, Chained
<1>4. Silence /\ ParentOK /\ WorkerOK
  BY DEF Init, Silence, ParentOK, WorkerOK, Opened, Talking
<1>5. Order
  BY DEF Init, Order, IntentsInOrder
<1> QED BY <1>1, <1>2, <1>3, <1>4, <1>5 DEF ProtocolInv

(* What a step that leaves transcripts, pipes and intents alone keeps.     *)
Mute ==
    /\ nbars' = nbars /\ pt' = pt /\ bar' = bar /\ iter' = iter /\ pending' = pending
    /\ applied' = applied /\ wt' = wt /\ tape' = tape /\ sent' = sent /\ down' = down /\ up' = up
    /\ wst' = wst \/ wst' = "exited" \/ (wst = "none" /\ wst' = "boot")
    /\ wst' # "exited" => wbar' = wbar /\ committed' = committed

LEMMA MuteKeeps ==
    ASSUME ProtocolInv, Mute
    PROVE  Boxes' /\ PipesOK(pt, wt, down, up, wst)' /\ Silence' /\ WorkerOK' /\ IntentsInOrder'
<1>1. Boxes'
  BY DEF ProtocolInv, Mute, Boxes
<1>2. PipesOK(pt, wt, down, up, wst')
  <2>1. PipesOK(pt, wt, down, up, wst)
    BY DEF ProtocolInv
  <2>2. wst' = "exited" => PipesOK(pt, wt, down, up, wst')
    BY <2>1, ExitKeeps, Zenon
  <2>3. wst = "none" /\ wst' = "boot" => PipesOK(pt, wt, down, up, wst')
    BY <2>1 DEF PipesOK
  <2> QED BY <2>1, <2>2, <2>3, Zenon DEF Mute
<1>3. Silence'
  BY DEF ProtocolInv, Mute, Silence
<1>4. WorkerOK'
  BY Zenon DEF ProtocolInv, Mute, WorkerOK
<1>5. IntentsInOrder'
  BY DEF ProtocolInv, Mute, Order, IntentsInOrder
<1> QED BY <1>1, <1>2, <1>3, <1>4, <1>5, Zenon DEF Mute

(* The parent leaves the conversation.                                     *)
LEMMA Leaves ==
    ASSUME ProtocolInv, Mute, SessionTypes', ppc' \notin Opened,
           ppc' = "abort" /\ ~closed' => pt # <<>> /\ (wst' = "run" => NothingAsked)
    PROVE  ProtocolInv'
<1>1. ParentOK'
  BY DEF Mute, ParentOK, Opened, Talking, NothingAsked
<1>2. Order'
  BY MuteKeeps DEF Order, Opened, Talking
<1> QED BY MuteKeeps, <1>1, <1>2, Zenon DEF ProtocolInv

(* The parent stays where it is.                                           *)
LEMMA Stays ==
    ASSUME ProtocolInv, Mute, SessionTypes', ppc' = ppc, closed' = closed,
           ppc = "spawn" => wst' = wst
    PROVE  ProtocolInv'
<1>1. ParentOK'
  BY DEF ProtocolInv, Mute, ParentOK, NothingAsked
<1>2. Order'
  <2>1. IntentsInOrder'
    BY MuteKeeps
  <2> QED BY <2>1, Zenon DEF ProtocolInv, Mute, Order, Rest
<1> QED BY MuteKeeps, <1>1, <1>2, Zenon DEF ProtocolInv

(* What the parent may append to what it has recorded.                     *)
LEMMA FollowUps ==
    ASSUME NEW t \in Seq(Messages)
    PROVE  /\ LastKind(t) \in {"INIT_RUN", "BAR_COMMIT"} => MayFollow(t, "BAR_BEGIN") /\ MayFollow(t, "FINALIZE")
           /\ LastKind(t) = "INTENT_BATCH" => MayFollow(t, "BROKER_EVENT_BATCH") /\ MayFollow(t, "BAR_COMMIT")
           /\ LastKind(t) = "BROKER_EVENT_BATCH" => MayFollow(t, "RECALC_REQUEST")
           /\ LastKind(t) = "HELLO" => MayFollow(t, "LOAD_ARTIFACT")
           /\ LastKind(t) = "LOAD_ARTIFACT" => MayFollow(t, "INIT_RUN")
           /\ LastKind(t) = "BAR_BEGIN" => MayFollow(t, "INTENT_BATCH")
           /\ LastKind(t) = "RECALC_REQUEST" => MayFollow(t, "RECALC_RESULT")
           /\ LastKind(t) = "RECALC_RESULT" => MayFollow(t, "INTENT_BATCH")
           /\ MayFollow(t, "ABORT") => t # <<>> /\ LastKind(t) # "ABORT"
<1>1. LastKind(t) # "none" => t # <<>>
  BY DEF LastKind
<1> QED BY <1>1, Zenon DEF MayFollow, AllowedAfter

(* What the parent waits for.                                              *)
Awaited == [hello |-> "HELLO", intents |-> "INTENT_BATCH", result |-> "RECALC_RESULT"]

(* What a waiting parent reads continues its transcript and is what it     *)
(* waits for, or it is the error line of a worker that has exited.         *)
LEMMA ReadsWhatItAwaits ==
    ASSUME ProtocolInv, ppc \in {"hello", "intents", "result"}, up # <<>>
    PROVE  /\ Head(up) \in Messages /\ LastKind(pt) # "ABORT"
           /\ Head(up).kind # "error" => Accepts(pt, Head(up)) /\ Head(up).kind = Awaited[ppc]
           /\ Head(up).kind = "error" => wst = "exited"
<1>1. /\ pt \in Seq(Messages) /\ wt \in Seq(Messages) /\ down \in Seq(Messages)
      /\ up \in Seq(Messages) /\ PipesOK(pt, wt, down, up, wst)
  BY DEF ProtocolInv, Boxes
<1>2. Head(up) = up[1] /\ Head(up) \in Messages /\ Len(up) \in Nat \ {0}
  BY <1>1, Headed
<1>3. /\ ppc = "hello" => pt = <<>> /\ LastKind(pt) = "none"
      /\ ppc = "intents" => LastKind(pt) \in {"BAR_BEGIN", "RECALC_RESULT"}
      /\ ppc = "result" => LastKind(pt) = "RECALC_REQUEST"
  BY DEF ProtocolInv, ParentOK, LastKind
<1>4. LastKind(pt) # "ABORT"
  BY <1>3
<1>5. Head(up).kind # "error" => Accepts(pt, Head(up)) /\ Head(up).kind \in FromWorker
  BY <1>1, <1>4, ReadKeeps
<1>6. Head(up).kind # "error" => Head(up).kind = Awaited[ppc]
  <2> SUFFICES ASSUME Head(up).kind # "error" PROVE Head(up).kind = Awaited[ppc]
    OBVIOUS
  <2>1. MayFollow(pt, Head(up).kind) /\ Head(up).kind \in FromWorker
    BY <1>5 DEF Accepts
  <2>2. CASE ppc = "hello"
    BY <2>1, <2>2, <1>3 DEF MayFollow, Awaited
  <2>3. CASE ppc = "intents"
    BY <2>1, <2>3, <1>3 DEF MayFollow, AllowedAfter, FromWorker, Awaited, LastKind
  <2>4. CASE ppc = "result"
    BY <2>1, <2>4, <1>3 DEF MayFollow, AllowedAfter, FromWorker, Awaited, LastKind
  <2> QED BY <2>2, <2>3, <2>4
<1>7. Head(up).kind = "error" => wst = "exited"
  <2>1. Ahead(pt, wt, up) => up[1].kind \in FromWorker
    BY <1>2 DEF Ahead
  <2> QED BY <1>1, <1>2, <2>1 DEF PipesOK, FromWorker
<1> QED BY <1>2, <1>4, <1>5, <1>6, <1>7

LEMMA BadReadMeansExit ==
    ASSUME ProtocolInv, ppc \in {"hello", "intents", "result"}, BadRead({Awaited[ppc]})
    PROVE  wst = "exited"
BY ReadsWhatItAwaits DEF BadRead

LEMMA SpawnKeeps == ProtocolInv /\ Spawn => ProtocolInv'
<1> SUFFICES ASSUME ProtocolInv, Spawn PROVE ProtocolInv'
  OBVIOUS
<1>1. wst = "none" /\ ppc = "spawn" /\ closed' = closed
  BY DEF ProtocolInv, ParentOK, Spawn
<1>2. Mute
  BY <1>1 DEF Spawn, Mute, worker
<1>3. SessionTypes'
  BY DEF ProtocolInv, SessionTypes, Spawn, Cleanup, worker, Places
<1>4. CASE ppc' \in {"over", "kill"}
  <2>1. ppc' \notin Opened /\ ppc' # "abort"
    BY <1>4 DEF Opened, Talking
  <2> QED BY <1>2, <1>3, <2>1, Leaves
<1>5. CASE ppc' = "hello"
  <2>1. pt = <<>> /\ applied = <<>> /\ iter = 0 /\ Len(tape) = Len(applied) /\ ~closed
    BY <1>1 DEF ProtocolInv, ParentOK, Order, Opened
  <2>2. ParentOK'
    BY <1>1, <1>2, <1>5, <2>1 DEF Mute, ParentOK, Talking
  <2>3. Order'
    BY <1>2, <1>5, <2>1, MuteKeeps DEF Mute, Order
  <2> QED BY <1>2, <1>3, <2>2, <2>3, MuteKeeps, Zenon DEF ProtocolInv
<1> QED BY <1>4, <1>5 DEF Spawn, Cleanup

(* Steps of the parent on its way out.                                     *)
WayOut ==
    \/ ReadTimeout \/ KillAgain \/ WaitExit \/ KillProcess \/ Reap \/ AtExitEnds \/ AtExit
    \/ StopUnit("stop", "show") \/ ShowUnit("show", "unit_kill")
    \/ StopUnit("unit_kill", "verify") \/ ShowUnit("verify", "reap")

LEMMA WayOutKeeps == ProtocolInv /\ WayOut => ProtocolInv'
<1> SUFFICES ASSUME ProtocolInv, WayOut PROVE ProtocolInv'
  OBVIOUS
<1> USE DEF worker
<1>0. SessionTypes
  BY DEF ProtocolInv
<1>1. CASE ReadTimeout
  BY <1>0, <1>1, Leaves DEF ReadTimeout, Cleanup, Mute, SessionTypes, Places, Opened, Talking
<1>2. CASE KillAgain
  BY <1>0, <1>2, Leaves DEF KillAgain, Cleanup, Mute, SessionTypes, Places, Opened, Talking
<1>3. CASE WaitExit
  BY <1>0, <1>3, Leaves DEF WaitExit, Cleanup, Mute, SessionTypes, Places, Opened, Talking
<1>4. CASE KillProcess
  BY <1>0, <1>4, Leaves DEF KillProcess, Mute, SessionTypes, Places, Opened, Talking
<1>5. CASE Reap
  BY <1>0, <1>5, Leaves DEF Reap, Mute, SessionTypes, Places, Opened, Talking
<1>6. CASE AtExitEnds
  BY <1>0, <1>6, Leaves DEF AtExitEnds, Mute, SessionTypes, Places, Opened, Talking
<1>7. CASE AtExit
  BY <1>0, <1>7, Leaves DEF AtExit, Mute, SessionTypes, Places, Opened, Talking
<1>8. CASE StopUnit("stop", "show")
  BY <1>0, <1>8, Leaves DEF StopUnit, Mute, SessionTypes, Places, Opened, Talking
<1>9. CASE ShowUnit("show", "unit_kill")
  BY <1>0, <1>9, Leaves, Zenon DEF ShowUnit, Mute, SessionTypes, Places, Opened, Talking
<1>10. CASE StopUnit("unit_kill", "verify")
  BY <1>0, <1>10, Leaves DEF StopUnit, Mute, SessionTypes, Places, Opened, Talking
<1>11. CASE ShowUnit("verify", "reap")
  BY <1>0, <1>11, Leaves, Zenon DEF ShowUnit, Mute, SessionTypes, Places, Opened, Talking
<1> QED BY <1>1, <1>2, <1>3, <1>4, <1>5, <1>6, <1>7, <1>8, <1>9, <1>10, <1>11 DEF WayOut

LEMMA EngineRaisesKeeps == ProtocolInv /\ EngineRaises => ProtocolInv'
<1> SUFFICES ASSUME ProtocolInv, EngineRaises PROVE ProtocolInv'
  OBVIOUS
<1>1. Mute /\ ppc' = "abort"
  BY DEF EngineRaises, Fail, Mute, worker
<1>2. SessionTypes'
  BY DEF ProtocolInv, SessionTypes, EngineRaises, Fail, worker, Places
<1>3. pt # <<>> /\ (wst = "run" => NothingAsked)
  BY DEF ProtocolInv, ParentOK, EngineRaises, Talking, LastKind
<1>4. wst' = wst
  BY DEF EngineRaises
<1> QED BY <1>1, <1>2, <1>3, <1>4, Leaves DEF Opened, Talking

(* The parent reads what it cannot accept, or nothing of a dead worker.    *)
LEMMA BadReadKeeps ==
    ASSUME ProtocolInv, SessionTypes', Mute, wst' = wst, ppc \in {"intents", "result"},
           BadRead({Awaited[ppc]}), ppc' = "abort"
    PROVE  ProtocolInv'
<1>1. wst' # "run" /\ pt # <<>>
  BY BadReadMeansExit DEF ProtocolInv, ParentOK, LastKind
<1> QED BY <1>1, Leaves DEF Opened, Talking

(* A parent that reads has heard from the worker.                          *)
LEMMA HeardFrom ==
    ASSUME ProtocolInv, up # <<>>
    PROVE  wst \in {"run", "exited"} /\ (wst = "run" => down = <<>>)
BY DEF ProtocolInv, SessionTypes, Silence, PipesOK

(* The same worker, with nothing more in its pipe than before.             *)
LEMMA SameWorker ==
    ASSUME ProtocolInv, wst' = wst, wt' = wt, down' = down, bar' = bar, iter' = iter,
           nbars' = nbars, committed' = committed, wbar' = wbar
    PROVE  WorkerOK'
BY DEF ProtocolInv, WorkerOK

LEMMA ReadResultKeeps == ProtocolInv /\ ReadResult => ProtocolInv'
<1> SUFFICES ASSUME ProtocolInv, ReadResult PROVE ProtocolInv'
  OBVIOUS
<1>0. ppc = "result" /\ Awaited[ppc] = "RECALC_RESULT"
  BY Zenon DEF ReadResult, Awaited
<1>1. SessionTypes'
  BY DEF ProtocolInv, SessionTypes, ReadResult, Fail, worker, Places
<1>2. CASE BadRead({"RECALC_RESULT"}) /\ Fail /\ UNCHANGED <<pt, up>>
  BY <1>0, <1>1, <1>2, BadReadKeeps DEF ReadResult, Fail, Mute, worker
<1>3. CASE /\ Reading({"RECALC_RESULT"})
           /\ pt' = Append(pt, Head(up)) /\ up' = Tail(up)
           /\ ppc' = "intents" /\ UNCHANGED back
  <2>1. /\ pt \in Seq(Messages) /\ wt \in Seq(Messages) /\ down \in Seq(Messages)
        /\ up \in Seq(Messages) /\ PipesOK(pt, wt, down, up, wst) /\ up # <<>>
        /\ Head(up).kind = "RECALC_RESULT" /\ LastKind(pt) # "ABORT"
    BY <1>0, <1>3, ReadsWhatItAwaits DEF ProtocolInv, Boxes, Reading
  <2>2. PipesOK(Append(pt, Head(up)), wt, down, Tail(up), wst)
    BY <2>1, ReadKeeps
  <2>3. /\ Head(up) \in Messages /\ Tail(up) \in Seq(Messages)
        /\ Len(Tail(up)) = Len(up) - 1 /\ Len(up) \in Nat \ {0}
        /\ \A n \in 1 .. Len(up) - 1 : Tail(up)[n] = up[n + 1]
        /\ Head(up) = up[1]
    BY <2>1, Headed
  <2>4. Append(pt, Head(up)) \in Seq(Messages) /\ LastKind(Append(pt, Head(up))) = "RECALC_RESULT"
    BY <2>1, <2>3, Appended, LastKindNew
  <2>5. Boxes'
    BY <1>3, <2>3, <2>4, Zenon DEF ProtocolInv, Boxes, ReadResult, worker
  <2>6. Silence'
    BY <2>1, HeardFrom DEF ReadResult, Silence
  <2>7. WorkerOK'
    BY SameWorker DEF ReadResult, worker
  <2>8. ParentOK'
    BY <1>0, <1>3, <2>4 DEF ProtocolInv, ParentOK, ReadResult, Opened, Talking
  <2>9. Order'
    <3>1. IntentsInOrder'
      BY Zenon DEF ProtocolInv, Order, IntentsInOrder, ReadResult, worker
    <3>2. tape' = tape /\ applied' = applied /\ bar' = bar /\ iter' = iter /\ ppc' = "intents"
      BY <1>3 DEF ReadResult, worker
    <3>3. IF up # <<>> /\ up[Len(up)].kind = "INTENT_BATCH" THEN Rest(up[Len(up)].batch)
          ELSE Len(tape) = Len(applied)
      BY <1>0 DEF ProtocolInv, Order
    <3>4. up' # <<>> => Len(up') \in 1 .. Len(up) - 1 /\ up'[Len(up')] = up[Len(up)]
      <4>1. up' # <<>> => Len(up') # 0
        BY <1>3, <2>3, EmptyLen
      <4> QED BY <1>3, <2>3, <4>1
    <3>5. up' = <<>> => Len(up) = 1
      BY <1>3, <2>3
    <3>6. up' = <<>> => Len(tape) = Len(applied)
      BY <2>1, <2>3, <3>3, <3>5, Zenon
    <3>7. up' # <<>> => IF up'[Len(up')].kind = "INTENT_BATCH" THEN Rest(up'[Len(up')].batch)
                        ELSE Len(tape) = Len(applied)
      BY <2>1, <3>3, <3>4
    <3>8. ASSUME NEW b, Rest(b) PROVE Rest(b)'
      BY <3>2, <3>8 DEF Rest
    <3>9. up' # <<>> /\ up'[Len(up')].kind = "INTENT_BATCH" => Rest(up[Len(up)].batch)'
      BY <3>4, <3>7, <3>2 DEF Rest
    <3> QED BY <3>1, <3>2, <3>6, <3>7 DEF Order, Rest
  <2> QED BY <1>1, <1>3, <2>2, <2>5, <2>6, <2>7, <2>8, <2>9 DEF ProtocolInv, ReadResult, worker
<1> QED BY <1>2, <1>3 DEF ReadResult

LEMMA ReadIntentsKeeps == ProtocolInv /\ ReadIntents => ProtocolInv'
<1> SUFFICES ASSUME ProtocolInv, ReadIntents PROVE ProtocolInv'
  OBVIOUS
<1>0. ppc = "intents" /\ Awaited[ppc] = "INTENT_BATCH"
  BY Zenon DEF ReadIntents, Awaited
<1>1. SessionTypes'
  BY DEF ProtocolInv, SessionTypes, ReadIntents, Fail, worker, Places
<1>2. CASE BadRead({"INTENT_BATCH"}) /\ Fail /\ UNCHANGED <<pt, up, pending>>
  BY <1>0, <1>1, <1>2, BadReadKeeps DEF ReadIntents, Fail, Mute, worker
<1>3. CASE /\ Reading({"INTENT_BATCH"})
           /\ pt' = Append(pt, Head(up)) /\ up' = Tail(up)
           /\ pending' = Head(up).batch
           /\ ppc' = "apply" /\ UNCHANGED back
  <2>1. /\ pt \in Seq(Messages) /\ wt \in Seq(Messages) /\ down \in Seq(Messages)
        /\ up \in Seq(Messages) /\ PipesOK(pt, wt, down, up, wst) /\ up # <<>>
        /\ Head(up).kind = "INTENT_BATCH" /\ LastKind(pt) # "ABORT"
    BY <1>0, <1>3, ReadsWhatItAwaits DEF ProtocolInv, Boxes, Reading
  <2>2. /\ PipesOK(Append(pt, Head(up)), wt, down, Tail(up), wst)
        /\ Tail(up) = <<>> /\ Len(up) = 1 /\ Len(wt) = Len(pt) + 1
    <3>1. /\ PipesOK(Append(pt, Head(up)), wt, down, Tail(up), wst)
          /\ Tail(up) = <<>> /\ Len(up) = 1 /\ Len(wt) = Len(pt) + Len(up)
      BY <2>1, ReadKeeps
    <3> QED BY <3>1
  <2>3. Head(up) \in Messages /\ Head(up) = up[1] /\ Tail(up) \in Seq(Messages)
    BY <2>1, Headed
  <2>4. /\ Append(pt, Head(up)) \in Seq(Messages) /\ Len(Append(pt, Head(up))) = Len(pt) + 1
        /\ LastKind(Append(pt, Head(up))) = "INTENT_BATCH"
    BY <2>1, <2>3, Appended, LastKindNew
  <2>5. Head(up).batch \in Seq(Intents)
    BY <2>3 DEF Messages
  <2>6. Boxes'
    BY <1>3, <2>3, <2>4, <2>5, Zenon DEF ProtocolInv, Boxes, ReadIntents, worker
  <2>7. Silence'
    BY <2>1, HeardFrom DEF ReadIntents, Silence
  <2>8. WorkerOK'
    BY SameWorker DEF ReadIntents, worker
  <2>9. ParentOK'
    <3>1. wst = "run" => down = <<>>
      BY <2>1, HeardFrom
    <3>2. Len(wt') <= Len(pt')
      BY <1>3, <2>2, <2>4, SMTT(30) DEF ReadIntents, worker
    <3>3. wst' = "run" => NothingAsked'
      BY <1>3, <2>2, <3>1 DEF ReadIntents, NothingAsked
    <3> QED BY <1>0, <1>3, <2>4, <3>1, <3>2, <3>3 DEF ProtocolInv, ParentOK, ReadIntents, Opened, Talking
  <2>10. Order'
    <3>1. IntentsInOrder'
      BY Zenon DEF ProtocolInv, Order, IntentsInOrder, ReadIntents, worker
    <3>2. tape' = tape /\ applied' = applied /\ bar' = bar /\ iter' = iter /\ ppc' = "apply"
      BY <1>3, Zenon DEF ReadIntents, worker
    <3>3. Rest(Head(up).batch)
      BY <1>0, <2>1, <2>2, <2>3 DEF ProtocolInv, Order
    <3>4. Rest(pending)'
      BY <1>3, <3>2, <3>3 DEF Rest
    <3> QED BY <3>1, <3>2, <3>4 DEF Order
  <2> QED BY <1>1, <1>3, <2>2, <2>6, <2>7, <2>8, <2>9, <2>10, Zenon DEF ProtocolInv, ReadIntents, worker
<1> QED BY <1>2, <1>3, Zenon DEF ReadIntents

(* _process_bar appends the batch to what was applied before.              *)
LEMMA AppliedGrows ==
    ASSUME NEW A, NEW a \in Seq(A), NEW b \in Seq(Intents), NEW f(_),
           \A n \in 1 .. Len(b) : f(n) \in A
    PROVE  LET r == a \o [n \in 1 .. Len(b) |-> f(n)]
           IN  /\ r \in Seq(A) /\ Len(r) = Len(a) + Len(b)
               /\ \A n \in 1 .. Len(a) : r[n] = a[n]
               /\ \A n \in 1 .. Len(b) : r[Len(a) + n] = f(n)
<1> DEFINE g == [n \in 1 .. Len(b) |-> f(n)]
<1>1. g \in Seq(A) /\ Len(g) = Len(b) /\ \A n \in 1 .. Len(b) : g[n] = f(n)
  OBVIOUS
<1> HIDE DEF g
<1>2. /\ a \o g \in Seq(A) /\ Len(a \o g) = Len(a) + Len(g)
      /\ \A n \in 1 .. Len(a) : (a \o g)[n] = a[n]
      /\ \A n \in 1 .. Len(g) : (a \o g)[Len(a) + n] = g[n]
  BY <1>1
<1> QED BY <1>1, <1>2 DEF g

LEMMA ApplyIntentsKeeps == ProtocolInv /\ ApplyIntents => ProtocolInv'
<1> SUFFICES ASSUME ProtocolInv, ApplyIntents PROVE ProtocolInv'
  OBVIOUS
<1> DEFINE A == [intent: Intents, bar: Int, iter: Int]
           f(n) == [intent |-> pending[n], bar |-> bar, iter |-> iter]
<1>1. SessionTypes'
  BY DEF ProtocolInv, SessionTypes, ApplyIntents, worker, Places
<1>2. /\ pending \in Seq(Intents) /\ applied \in Seq(A) /\ tape \in Seq(Intents)
      /\ bar \in Int /\ iter \in Int
  BY SessionAssumption DEF ProtocolInv, Boxes, SessionTypes
<1>3. \A n \in 1 .. Len(pending) : f(n) \in A
  BY <1>2
<1>4. /\ applied' \in Seq(A) /\ Len(applied') = Len(applied) + Len(pending)
      /\ \A n \in 1 .. Len(applied) : applied'[n] = applied[n]
      /\ \A n \in 1 .. Len(pending) : applied'[Len(applied) + n] = f(n)
  <2>1. applied' = applied \o [n \in 1 .. Len(pending) |-> f(n)]
    BY DEF ApplyIntents
  <2> HIDE DEF f, A
  <2> QED BY <1>2, <1>3, <2>1, AppliedGrows, SMTT(30)
<1>5. Boxes'
  BY <1>4, Zenon DEF ProtocolInv, Boxes, ApplyIntents, worker
<1>6. ppc = "apply" /\ ppc' = "decide"
  BY DEF ApplyIntents
<1>7. PipesOK(pt, wt, down, up, wst)' /\ Silence' /\ WorkerOK'
  <2>1. PipesOK(pt, wt, down, up, wst)'
    BY DEF ProtocolInv, ApplyIntents, worker
  <2>2. Silence'
    BY DEF ProtocolInv, Silence, ApplyIntents, worker
  <2>3. WorkerOK'
    BY SameWorker DEF ApplyIntents, worker
  <2> QED BY <2>1, <2>2, <2>3
<1>8. ParentOK'
  BY <1>6 DEF ProtocolInv, ParentOK, ApplyIntents, worker, Opened, Talking, NothingAsked
<1>9. Order'
  <2>1. tape' = tape /\ bar' = bar /\ iter' = iter
    BY DEF ApplyIntents, worker
  <2>2. Rest(pending) /\ IntentsInOrder
    BY <1>6 DEF ProtocolInv, Order
  <2>3. Len(tape) = Len(applied) + Len(pending)
    BY <2>2 DEF Rest
  <2>4. ASSUME NEW n \in 1 .. Len(applied')
        PROVE  /\ applied'[n].intent = tape[n]
               /\ tape[n].bar = applied'[n].bar /\ tape[n].iter = applied'[n].iter
               /\ tape[n].after = tape[n].bar
    <3>1. CASE n \in 1 .. Len(applied)
      BY <3>1, <1>4, <2>2 DEF IntentsInOrder
    <3>2. CASE n \notin 1 .. Len(applied)
      <4> DEFINE k == n - Len(applied)
      <4>1. k \in 1 .. Len(pending) /\ Len(applied) + k = n
        BY <3>2, <1>2, <1>4, SMTT(30)
      <4> HIDE DEF k
      <4>2. applied'[n] = f(k)
        BY <4>1, <1>4, Zenon
      <4>3. pending[k] = tape[n] /\ pending[k].bar = bar /\ pending[k].iter = iter /\ pending[k].after = bar
        BY <4>1, <2>2 DEF Rest
      <4> QED BY <4>2, <4>3, SMTT(30)
    <3> QED BY <3>1, <3>2
  <2>5. IntentsInOrder'
    BY <1>4, <2>1, <2>3, <2>4, <1>2, SMTT(30) DEF IntentsInOrder
  <2> QED BY <1>4, <1>6, <2>1, <2>3, <2>5 DEF Order
<1> QED BY <1>1, <1>5, <1>7, <1>8, <1>9, Zenon DEF ProtocolInv

(* A talking parent that records and sends one message of kind k.          *)
LEMMA SendsOne ==
    ASSUME ProtocolInv, ppc \in Talking, NEW k \in Kinds, MayFollow(pt, k), NEW b \in Int,
           NEW i \in Int, NEW next, Send(<<k>>, b, i, next)
    PROVE  \E m \in Messages :
             /\ m.kind = k /\ m.bar = b /\ m.iter = i /\ pt' = Append(pt, m)
             /\ pt' \in Seq(Messages) /\ down' \in Seq(Messages) /\ LastKind(pt') = k
             /\ PipesOK(pt', wt, down', up, wst)
             /\ \/ ~CanWrite /\ wst = "exited" /\ ppc' = "abort" /\ back' = "over"
                \/ CanWrite /\ down' = Append(down, m) /\ ppc' = next /\ back' = back
<1> DEFINE m == Message(pt, k, b, i, <<>>)
<1>1. /\ pt \in Seq(Messages) /\ wt \in Seq(Messages) /\ down \in Seq(Messages)
      /\ up \in Seq(Messages) /\ PipesOK(pt, wt, down, up, wst) /\ Len(wt) <= Len(pt)
      /\ ~closed /\ (wst = "run" => up = <<>>)
  BY DEF ProtocolInv, Boxes, ParentOK, Opened, NothingAsked
<1>2. LastKind(pt) # "ABORT"
  BY DEF ProtocolInv, ParentOK, Talking
<1>3. m \in Messages /\ m.kind = k /\ m.bar = b /\ m.iter = i /\ Accepts(pt, m)
  <2>1. m = Message(pt, k, b, i, <<>>)
    OBVIOUS
  <2> HIDE DEF m
  <2> QED BY <1>1, <2>1, MessagePlain
<1>4. \/ ~CanWrite /\ pt' = Append(pt, m) /\ down' = down /\ Fail
      \/ CanWrite /\ pt' = Append(pt, m) /\ down' = Append(down, m) /\ ppc' = next /\ back' = back
  <2>1. <<k>>[1] = k /\ Len(<<k>>) = 1
    OBVIOUS
  <2> HIDE DEF m
  <2>2. pt \o <<m>> = Append(pt, m) /\ down \o <<m>> = Append(down, m)
    BY <1>1, <1>3, JoinedOne
  <2> QED BY <2>1, <2>2 DEF Send, m
<1> HIDE DEF m
<1>5. Append(pt, m) \in Seq(Messages) /\ Append(down, m) \in Seq(Messages) /\ LastKind(Append(pt, m)) = k
  BY <1>1, <1>3, Appended, LastKindNew, Zenon
<1>6. ~CanWrite => wst = "exited"
  BY <1>1 DEF CanWrite
<1>7. PipesOK(pt', wt, down', up, wst)
  <2>1. wst = "run" => up = <<>> /\ down' = Append(down, m)
    BY <1>1, <1>4, <1>6
  <2>2. down' \in Seq(Messages)
    BY <1>1, <1>4, <1>5, Zenon
  <2>3. PipesOK(Append(pt, m), wt, down', up, wst)
    BY <1>1, <1>2, <1>3, <2>1, <2>2, SendKeeps
  <2> QED BY <1>4, <2>3, Zenon
<1> QED BY <1>1, <1>3, <1>4, <1>5, <1>6, <1>7, Zenon DEF Fail

(* A talking parent that records and sends two messages.                   *)
LEMMA SendsTwo ==
    ASSUME ProtocolInv, Recalc
    PROVE  \E m1, m2 \in Messages :
             /\ m1.kind = "BROKER_EVENT_BATCH"
             /\ m2.kind = "RECALC_REQUEST" /\ m2.bar = bar /\ m2.iter = iter + 1
             /\ pt' \in Seq(Messages) /\ pt' # <<>> /\ down' \in Seq(Messages)
             /\ PipesOK(pt', wt, down', up, wst)
             /\ \/ ~CanWrite /\ wst = "exited" /\ ppc' = "abort" /\ back' = "over"
                \/ /\ CanWrite /\ down' = Append(Append(down, m1), m2)
                   /\ ppc' = "result" /\ back' = back /\ LastKind(pt') = "RECALC_REQUEST"
<1> DEFINE b == bar
           i == iter + 1
           m1 == Message(pt, "BROKER_EVENT_BATCH", b, i, <<>>)
           q == Append(pt, m1)
           m2 == Message(q, "RECALC_REQUEST", b, i, <<>>)
           e == Append(down, m1)
<1>0. Send(<<"BROKER_EVENT_BATCH", "RECALC_REQUEST">>, b, i, "result") /\ i \in Int /\ b \in Int
      /\ ppc = "decide"
  BY DEF Recalc, ProtocolInv, SessionTypes
<1> HIDE DEF b, i
<1>1. /\ pt \in Seq(Messages) /\ wt \in Seq(Messages) /\ down \in Seq(Messages)
      /\ up \in Seq(Messages) /\ PipesOK(pt, wt, down, up, wst) /\ Len(wt) <= Len(pt)
      /\ ~closed /\ (wst = "run" => up = <<>>) /\ LastKind(pt) = "INTENT_BATCH"
  BY <1>0 DEF ProtocolInv, Boxes, ParentOK, Opened, Talking, NothingAsked
<1>2. /\ <<>> \in Seq(Intents) /\ "BROKER_EVENT_BATCH" \in Kinds /\ "RECALC_REQUEST" \in Kinds
      /\ MayFollow(pt, "BROKER_EVENT_BATCH")
  BY <1>1, FollowUps DEF Kinds
<1>3. m1 \in Messages /\ m1.kind = "BROKER_EVENT_BATCH" /\ Accepts(pt, m1)
  <2>1. m1 = Message(pt, "BROKER_EVENT_BATCH", b, i, <<>>)
    OBVIOUS
  <2> HIDE DEF m1
  <2> QED BY <1>0, <1>1, <1>2, <2>1, MessagePlain
<1> HIDE DEF m1
<1>4. /\ q \in Seq(Messages) /\ Len(q) = Len(pt) + 1 /\ LastKind(q) = "BROKER_EVENT_BATCH"
      /\ e \in Seq(Messages)
  BY <1>1, <1>3, Appended, LastKindNew, Zenon
<1> HIDE DEF q
<1>5. m2 \in Messages /\ m2.kind = "RECALC_REQUEST" /\ m2.bar = b /\ m2.iter = i /\ Accepts(q, m2)
  <2>1. MayFollow(q, "RECALC_REQUEST")
    BY <1>4, FollowUps
  <2>2. m2 = Message(q, "RECALC_REQUEST", b, i, <<>>)
    OBVIOUS
  <2> HIDE DEF m2
  <2> QED BY <1>0, <1>2, <1>4, <2>1, <2>2, MessagePlain
<1>6. \/ ~CanWrite /\ pt' \in {q, Append(q, m2)} /\ down' = down /\ Fail
      \/ /\ CanWrite /\ pt' = Append(q, m2) /\ down' = Append(e, m2)
         /\ ppc' = "result" /\ back' = back
  <2> DEFINE ks == <<"BROKER_EVENT_BATCH", "RECALC_REQUEST">>
  <2>1. ks[1] = "BROKER_EVENT_BATCH" /\ ks[2] = "RECALC_REQUEST" /\ Len(ks) # 1
    OBVIOUS
  <2> HIDE DEF ks, m2
  <2>2. pt \o <<m1, m2>> = Append(q, m2) /\ down \o <<m1, m2>> = Append(e, m2)
    BY <1>1, <1>3, <1>5, JoinedTwo DEF q
  <2>3. Send(ks, b, i, "result")
    BY <1>0 DEF ks
  <2> QED BY <2>1, <2>2, <2>3, Zenon DEF Send, m1, m2, q
<1> HIDE DEF m2
<1>7. ~CanWrite => wst = "exited"
  BY <1>1 DEF CanWrite
<1>8. /\ Append(q, m2) \in Seq(Messages) /\ LastKind(Append(q, m2)) = "RECALC_REQUEST"
      /\ Append(e, m2) \in Seq(Messages)
  BY <1>4, <1>5, Appended, LastKindNew
<1>9. PipesOK(q, wt, e, up, wst) /\ Len(wt) <= Len(q)
  <2>1. PipesOK(Append(pt, m1), wt, e, up, wst)
    BY <1>1, <1>3, <1>4, SendKeeps, Zenon
  <2>2. Len(wt) <= Len(q)
    <3>1. Len(wt) \in Nat /\ Len(pt) \in Nat
      BY <1>1
    <3> QED BY <3>1, <1>1, <1>4
  <2> QED BY <2>1, <2>2 DEF q
<1> HIDE DEF e
<1>10. PipesOK(Append(q, m2), wt, Append(e, m2), up, wst)
  BY <1>1, <1>4, <1>5, <1>8, <1>9, SendKeeps, Zenon
<1>11. PipesOK(pt', wt, down', up, wst)
  <2>1. CASE CanWrite
    BY <2>1, <1>6, <1>10, Zenon
  <2>2. CASE ~CanWrite
    <3>1. wst # "run" /\ pt' \in {q, Append(q, m2)}
      BY <2>2, <1>6, <1>7
    <3>2. PipesOK(q, wt, down', up, wst)
      BY <3>1, <1>9, DeafKeeps
    <3>3. PipesOK(Append(q, m2), wt, down', up, wst)
      BY <3>1, <1>10, DeafKeeps
    <3> QED BY <3>1, <3>2, <3>3, Zenon
  <2> QED BY <2>1, <2>2
<1>12. pt' \in Seq(Messages) /\ down' \in Seq(Messages)
  BY <1>1, <1>4, <1>6, <1>8, Zenon
<1>13. pt' # <<>>
  BY <1>4, <1>6, <1>8 DEF LastKind
<1> QED BY <1>3, <1>5, <1>6, <1>7, <1>8, <1>11, <1>12, <1>13, Zenon DEF Fail, e, b, i

(* A parent that could not write is on its way out.                        *)
LEMMA GivesUp ==
    ASSUME ProtocolInv, SessionTypes', Boxes', PipesOK(pt', wt, down', up, wst), wst = "exited",
           wst' = wst, wt' = wt, up' = up, tape' = tape, applied' = applied, ppc' = "abort",
           pt' # <<>>
    PROVE  ProtocolInv'
<1>1. PipesOK(pt, wt, down, up, wst)'
  BY Zenon DEF PipesOK, Behind, Ahead
<1>2. Silence' /\ WorkerOK'
  BY DEF Silence, WorkerOK
<1>3. ParentOK'
  BY DEF ParentOK, Opened, Talking
<1>4. Order'
  BY Zenon DEF ProtocolInv, Order, IntentsInOrder
<1> QED BY <1>1, <1>2, <1>3, <1>4 DEF ProtocolInv

(* Nothing but an error line waits for a talking parent.                   *)
LEMMA NotAhead ==
    ASSUME ProtocolInv, ppc \in Talking
    PROVE  ~(up # <<>> /\ up[Len(up)].kind = "INTENT_BATCH")
<1>1. /\ up \in Seq(Messages) /\ PipesOK(pt, wt, down, up, wst) /\ Len(wt) <= Len(pt)
      /\ LastKind(pt) # "ABORT" /\ Len(pt) \in Nat /\ Len(wt) \in Nat
  BY DEF ProtocolInv, Boxes, ParentOK, Talking
<1>2. up # <<>> => Len(up) \in Nat \ {0}
  BY <1>1, EmptyLen
<1>3. up # <<>> => ~Ahead(pt, wt, up)
  BY <1>1, <1>2, SMTT(30) DEF Ahead, Core
<1> QED BY <1>1, <1>3 DEF PipesOK

(* What a request leaves: it is the last message and about this bar.       *)
LEMMA AsksFor ==
    ASSUME ProtocolInv, wst = "run", NothingAsked, NEW m \in Messages, m.kind \in Requests,
           m.bar = bar, m.iter = iter', bar' = bar, bar < nbars, nbars' = nbars, wst' = wst,
           wt' = wt, committed' = committed, wbar' = wbar,
           \/ down' = Append(down, m)
           \/ \E l \in Messages : /\ l.kind = "BROKER_EVENT_BATCH"
                                  /\ down' = Append(Append(down, l), m)
    PROVE  WorkerOK'
<1>1. /\ down \in Seq(Messages) /\ Len(down) \in Nat
      /\ \A n \in 1 .. Len(down) : down[n].kind \in FromParent /\ down[n].kind \notin Requests
                                   /\ (down[n].kind = "BAR_COMMIT" => n = 1)
      /\ committed + (IF down # <<>> /\ down[1].kind = "BAR_COMMIT" THEN 1 ELSE 0) = bar
      /\ wbar # None => wbar = committed /\ committed < nbars
      /\ LastKind(wt) \in {"INTENT_BATCH", "BROKER_EVENT_BATCH"} => wbar # None
  BY DEF ProtocolInv, Boxes, WorkerOK, NothingAsked
<1>2. m.kind \in FromParent /\ m.kind # "BAR_COMMIT" /\ "BROKER_EVENT_BATCH" \in FromParent \ Requests
  BY DEF FromParent, Requests
<1>3. PICK e \in Seq(Messages) :
        /\ down' = Append(e, m)
        /\ \A n \in 1 .. Len(e) : e[n].kind \in FromParent /\ e[n].kind \notin Requests
                                  /\ (e[n].kind = "BAR_COMMIT" => n = 1)
        /\ (e # <<>> /\ e[1].kind = "BAR_COMMIT") <=> (down # <<>> /\ down[1].kind = "BAR_COMMIT")
  <2>1. CASE down' = Append(down, m)
    BY <2>1, <1>1
  <2>2. CASE \E l \in Messages : /\ l.kind = "BROKER_EVENT_BATCH"
                                 /\ down' = Append(Append(down, l), m)
    <3>1. PICK l \in Messages : l.kind = "BROKER_EVENT_BATCH" /\ down' = Append(Append(down, l), m)
      BY <2>2
    <3> DEFINE e == Append(down, l)
    <3>2. /\ e \in Seq(Messages) /\ Len(e) = Len(down) + 1 /\ e[Len(down) + 1] = l /\ e # <<>>
          /\ \A n \in 1 .. Len(down) : e[n] = down[n]
      BY <1>1, Appended
    <3> HIDE DEF e
    <3>3. down = <<>> <=> Len(down) = 0
      BY <1>1, EmptyLen
    <3>4. \A n \in 1 .. Len(e) : e[n].kind \in FromParent /\ e[n].kind \notin Requests
                                 /\ (e[n].kind = "BAR_COMMIT" => n = 1)
      <4> TAKE n \in 1 .. Len(e)
      <4>1. CASE n = Len(down) + 1
        BY <4>1, <3>1, <3>2, <1>2
      <4>2. CASE n # Len(down) + 1
        <5>1. n \in 1 .. Len(down)
          BY <4>2, <3>2, <1>1
        <5> QED BY <5>1, <3>2, <1>1
      <4> QED BY <4>1, <4>2
    <3>5. (e # <<>> /\ e[1].kind = "BAR_COMMIT") <=> (down # <<>> /\ down[1].kind = "BAR_COMMIT")
      BY <1>1, <3>1, <3>2, <3>3
    <3>6. down' = Append(e, m)
      BY <3>1 DEF e
    <3> QED BY <3>2, <3>4, <3>5, <3>6
  <2> QED BY <2>1, <2>2
<1>4. /\ Len(down') = Len(e) + 1 /\ down'[Len(e) + 1] = m /\ down' # <<>> /\ Len(e) \in Nat
      /\ \A n \in 1 .. Len(e) : down'[n] = e[n]
  BY <1>3, Appended
<1>5. e = <<>> <=> Len(e) = 0
  BY EmptyLen
<1>6. (down' # <<>> /\ down'[1].kind = "BAR_COMMIT") <=> (down # <<>> /\ down[1].kind = "BAR_COMMIT")
  <2>1. CASE e = <<>>
    BY <2>1, <1>2, <1>3, <1>4, <1>5
  <2>2. CASE e # <<>>
    BY <2>2, <1>3, <1>4, <1>5
  <2> QED BY <2>1, <2>2
<1>7. ASSUME NEW n \in 1 .. Len(down')
      PROVE  /\ down'[n].kind \in FromParent
             /\ down'[n].kind = "BAR_COMMIT" => n = 1
             /\ down'[n].kind \in Requests =>
                  n = Len(down') /\ down'[n].bar = bar' /\ down'[n].iter = iter' /\ bar' < nbars'
  <2>1. CASE n = Len(e) + 1
    BY <2>1, <1>2, <1>4
  <2>2. CASE n # Len(e) + 1
    <3>1. n \in 1 .. Len(e)
      BY <2>2, <1>4
    <3> QED BY <3>1, <1>3, <1>4
  <2> QED BY <2>1, <2>2
<1>8. committed' + (IF down' # <<>> /\ down'[1].kind = "BAR_COMMIT" THEN 1 ELSE 0) = bar'
  BY <1>1, <1>6
<1> QED BY <1>1, <1>7, <1>8 DEF WorkerOK

LEMMA BarBeginKeeps == ProtocolInv /\ BarBegin => ProtocolInv'
<1> SUFFICES ASSUME ProtocolInv, BarBegin PROVE ProtocolInv'
  OBVIOUS
<1>1. /\ ppc = "engine" /\ iter = 0 /\ bar < nbars /\ bar \in Int /\ 0 \in Int /\ ~closed
      /\ pt \in Seq(Messages) /\ LastKind(pt) \in {"INIT_RUN", "BAR_COMMIT"}
      /\ (wst = "run" => NothingAsked)
  BY DEF ProtocolInv, Boxes, SessionTypes, ParentOK, BarBegin, Opened, Talking
<1>2. MayFollow(pt, "BAR_BEGIN") /\ "BAR_BEGIN" \in Kinds /\ ppc \in Talking
  BY <1>1, FollowUps DEF Kinds, Talking
<1>3. PICK m \in Messages :
         /\ m.kind = "BAR_BEGIN" /\ m.bar = bar /\ m.iter = 0 /\ pt' = Append(pt, m)
         /\ pt' \in Seq(Messages) /\ down' \in Seq(Messages) /\ LastKind(pt') = "BAR_BEGIN"
         /\ PipesOK(pt', wt, down', up, wst)
         /\ \/ ~CanWrite /\ wst = "exited" /\ ppc' = "abort" /\ back' = "over"
            \/ CanWrite /\ down' = Append(down, m) /\ ppc' = "intents" /\ back' = back
  <2>1. Send(<<"BAR_BEGIN">>, bar, 0, "intents")
    BY DEF BarBegin
  <2> QED BY <1>1, <1>2, <2>1, SendsOne
<1>4. SessionTypes'
  BY <1>3 DEF ProtocolInv, SessionTypes, BarBegin, worker, Places
<1>5. Boxes'
  BY <1>3 DEF ProtocolInv, Boxes, BarBegin, worker
<1>6. CASE ppc' = "abort"
  BY <1>3, <1>4, <1>5, <1>6, GivesUp DEF BarBegin, worker
<1>7. CASE ppc' = "intents" /\ down' = Append(down, m)
  <2>1. Silence'
    BY <1>1, Zenon DEF ProtocolInv, Silence, BarBegin, LastKind
  <2>2. WorkerOK'
    <3>1. CASE wst = "run"
      BY <1>1, <1>3, <1>7, <3>1, AsksFor DEF BarBegin, worker, Requests
    <3>2. CASE wst # "run"
      BY <3>2, Zenon DEF BarBegin, WorkerOK
    <3> QED BY <3>1, <3>2
  <2>3. ParentOK'
    BY <1>1, <1>3, <1>7 DEF ParentOK, BarBegin, Opened, Talking
  <2>4. Order'
    <3>1. Len(tape) = Len(applied) /\ IntentsInOrder
      BY <1>1, Zenon DEF ProtocolInv, Order
    <3>2. ~(up # <<>> /\ up[Len(up)].kind = "INTENT_BATCH")
      BY <1>2, NotAhead, Zenon
    <3> QED BY <3>1, <3>2, <1>7, Zenon DEF Order, IntentsInOrder, BarBegin, worker
  <2>5. PipesOK(pt, wt, down, up, wst)'
    BY <1>3 DEF BarBegin, worker
  <2> QED BY <1>4, <1>5, <2>1, <2>2, <2>3, <2>4, <2>5 DEF ProtocolInv
<1> QED BY <1>3, <1>6, <1>7

LEMMA RecalcKeeps == ProtocolInv /\ Recalc => ProtocolInv'
<1> SUFFICES ASSUME ProtocolInv, Recalc PROVE ProtocolInv'
  OBVIOUS
<1>1. /\ ppc = "decide" /\ iter < MaxRecalc /\ bar \in Int /\ iter \in Int /\ iter + 1 \in Int
      /\ bar < nbars /\ ~closed /\ pt \in Seq(Messages) /\ LastKind(pt) = "INTENT_BATCH"
      /\ (wst = "run" => NothingAsked)
  BY DEF ProtocolInv, Boxes, SessionTypes, ParentOK, Recalc, Opened, Talking
<1>2. ppc \in Talking
  BY <1>1 DEF Talking
<1>3. PICK m1, m2 \in Messages :
             /\ m1.kind = "BROKER_EVENT_BATCH"
             /\ m2.kind = "RECALC_REQUEST" /\ m2.bar = bar /\ m2.iter = iter + 1
             /\ pt' \in Seq(Messages) /\ pt' # <<>> /\ down' \in Seq(Messages)
             /\ PipesOK(pt', wt, down', up, wst)
             /\ \/ ~CanWrite /\ wst = "exited" /\ ppc' = "abort" /\ back' = "over"
                \/ /\ CanWrite /\ down' = Append(Append(down, m1), m2)
                   /\ ppc' = "result" /\ back' = back /\ LastKind(pt') = "RECALC_REQUEST"
  BY SendsTwo
<1>4. SessionTypes'
  BY <1>1, <1>3, SessionAssumption DEF ProtocolInv, SessionTypes, Recalc, worker, Places
<1>5. Boxes'
  BY <1>3 DEF ProtocolInv, Boxes, Recalc, worker
<1>6. CASE ppc' = "abort"
  BY <1>3, <1>4, <1>5, <1>6, GivesUp DEF Recalc, worker
<1>7. CASE ppc' = "result" /\ down' = Append(Append(down, m1), m2) /\ LastKind(pt') = "RECALC_REQUEST"
  <2>1. Silence'
    BY <1>1, Zenon DEF ProtocolInv, Silence, Recalc, LastKind
  <2>2. WorkerOK'
    <3>1. CASE wst = "run"
      BY <1>1, <1>3, <1>7, <3>1, AsksFor, Zenon DEF Recalc, worker, Requests
    <3>2. CASE wst # "run"
      BY <3>2, Zenon DEF Recalc, WorkerOK
    <3> QED BY <3>1, <3>2
  <2>3. ParentOK'
    BY <1>1, <1>3, <1>7 DEF ParentOK, Recalc, Opened, Talking
  <2>4. Order'
    <3>1. Len(tape) = Len(applied) /\ IntentsInOrder
      BY <1>1, Zenon DEF ProtocolInv, Order
    <3>2. ~(up # <<>> /\ up[Len(up)].kind = "INTENT_BATCH")
      BY <1>2, NotAhead
    <3> QED BY <3>1, <3>2, <1>7, Zenon DEF Order, IntentsInOrder, Recalc, worker
  <2>5. PipesOK(pt, wt, down, up, wst)'
    BY <1>3 DEF Recalc, worker
  <2> QED BY <1>4, <1>5, <2>1, <2>2, <2>3, <2>4, <2>5 DEF ProtocolInv
<1> QED BY <1>3, <1>6, <1>7

LEMMA BarCommitKeeps == ProtocolInv /\ BarCommit => ProtocolInv'
<1> SUFFICES ASSUME ProtocolInv, BarCommit PROVE ProtocolInv'
  OBVIOUS
<1>1. /\ ppc = "decide" /\ bar \in Int /\ iter \in Int /\ nbars \in Int /\ bar < nbars /\ ~closed
      /\ pt \in Seq(Messages) /\ LastKind(pt) = "INTENT_BATCH"
      /\ (wst = "run" => NothingAsked /\ down = <<>>) /\ Len(wt) <= Len(pt)
  BY SessionAssumption DEF ProtocolInv, Boxes, SessionTypes, ParentOK, BarCommit, Opened, Talking
<1>2. MayFollow(pt, "BAR_COMMIT") /\ "BAR_COMMIT" \in Kinds /\ ppc \in Talking
  BY <1>1, FollowUps DEF Kinds, Talking
<1>3. PICK m \in Messages :
         /\ m.kind = "BAR_COMMIT" /\ m.bar = bar /\ m.iter = iter /\ pt' = Append(pt, m)
         /\ pt' \in Seq(Messages) /\ down' \in Seq(Messages) /\ LastKind(pt') = "BAR_COMMIT"
         /\ PipesOK(pt', wt, down', up, wst)
         /\ \/ ~CanWrite /\ wst = "exited" /\ ppc' = "abort" /\ back' = "over"
            \/ CanWrite /\ down' = Append(down, m) /\ ppc' = "engine" /\ back' = back
  <2>1. Send(<<"BAR_COMMIT">>, bar, iter, "engine")
    BY DEF BarCommit
  <2> QED BY <1>1, <1>2, <2>1, SendsOne
<1>4. SessionTypes'
  <2>1. bar' \in 0 .. nbars /\ iter' \in 0 .. MaxRecalc /\ commit' \in BOOLEAN
    BY <1>1, SessionAssumption DEF ProtocolInv, SessionTypes, BarCommit
  <2> QED BY <1>3, <2>1 DEF ProtocolInv, SessionTypes, BarCommit, worker, Places
<1>5. Boxes'
  BY <1>3 DEF ProtocolInv, Boxes, BarCommit, worker
<1>6. CASE ppc' = "abort"
  BY <1>3, <1>4, <1>5, <1>6, GivesUp DEF BarCommit, worker
<1>7. CASE ppc' = "engine" /\ down' = Append(down, m)
  <2>1. Silence'
    BY <1>1, Zenon DEF ProtocolInv, Silence, BarCommit, LastKind
  <2>2. wst = "run" => /\ Len(down') = 1 /\ down'[1] = m /\ down' # <<>> /\ up = <<>>
                       /\ \A n \in 1 .. Len(down') : n = 1 /\ down'[n] = m
    <3>1. /\ Append(<<>>, m) = <<m>> /\ Len(<<m>>) = 1 /\ <<m>>[1] = m /\ <<m>> # <<>>
          /\ \A n \in 1 .. Len(<<m>>) : n = 1 /\ <<m>>[n] = m
      OBVIOUS
    <3>2. wst = "run" => down' = <<m>> /\ up = <<>>
      BY <1>1, <1>7, <3>1, Zenon DEF NothingAsked
    <3> QED BY <3>1, <3>2, Zenon
  <2>3. WorkerOK'
    <3>1. CASE wst # "run"
      BY <3>1 DEF BarCommit, WorkerOK
    <3>2. CASE wst = "run"
      <4>1. /\ committed = bar
            /\ wbar # None => wbar = committed /\ committed < nbars
            /\ LastKind(wt) \in {"INTENT_BATCH", "BROKER_EVENT_BATCH"} => wbar # None
        BY <1>1, <3>2 DEF ProtocolInv, WorkerOK, SessionTypes
      <4>2. UNCHANGED <<nbars, wst, wt, wbar, committed>> /\ bar' = bar + 1
        BY DEF BarCommit, worker
      <4>3. m.kind \in FromParent /\ m.kind \notin Requests
        BY <1>3 DEF FromParent, Requests
      <4>4. \A n \in 1 .. Len(down') : n = 1 /\ down'[n] = m
        BY <2>2, <3>2, Zenon
      <4>5. committed' + (IF down' # <<>> /\ down'[1].kind = "BAR_COMMIT" THEN 1 ELSE 0) = bar'
        BY <1>3, <2>2, <3>2, <4>1, <4>2
      <4> QED BY <4>1, <4>2, <4>3, <4>4, <4>5 DEF WorkerOK
    <3> QED BY <3>1, <3>2
  <2>4. ParentOK'
    <3>1. wst' = "run" => NothingAsked'
      <4>1. wst' = wst /\ up' = up
        BY DEF BarCommit
      <4>2. m.kind \notin Requests
        BY <1>3 DEF Requests
      <4>3. wst = "run" => \A n \in 1 .. Len(down') : down'[n] = m
        BY <2>2, Zenon
      <4> QED BY <2>2, <4>1, <4>2, <4>3 DEF NothingAsked
    <3>2. Len(wt') <= Len(pt')
      <4>1. Len(pt') = Len(pt) + 1 /\ Len(pt) \in Nat
        BY <1>1, <1>3, Appended
      <4>2. Len(wt) \in Nat
        BY DEF ProtocolInv, Boxes
      <4> QED BY <1>1, <4>1, <4>2 DEF BarCommit, worker
    <3> QED BY <1>1, <1>3, <1>7, <3>1, <3>2 DEF ParentOK, BarCommit, Opened, Talking
  <2>5. Order'
    BY <1>1, <1>7, Zenon DEF ProtocolInv, Order, IntentsInOrder, BarCommit, worker
  <2>6. PipesOK(pt, wt, down, up, wst)'
    BY <1>3 DEF BarCommit, worker
  <2> QED BY <1>4, <1>5, <2>1, <2>3, <2>4, <2>5, <2>6 DEF ProtocolInv
<1> QED BY <1>3, <1>6, <1>7

(* The last message to a worker that has not been asked anything.          *)
LEMMA LastWord ==
    ASSUME ProtocolInv, wst = "run", NothingAsked, NEW m \in Messages,
           m.kind \in {"FINALIZE", "ABORT"}, down' = Append(down, m), bar' = bar, iter' = iter,
           nbars' = nbars, wst' = wst, wt' = wt, committed' = committed, wbar' = wbar
    PROVE  WorkerOK'
<1>1. /\ down \in Seq(Messages) /\ Len(down) \in Nat
      /\ \A n \in 1 .. Len(down) : down[n].kind \in FromParent /\ down[n].kind \notin Requests
                                   /\ (down[n].kind = "BAR_COMMIT" => n = 1)
      /\ committed + (IF down # <<>> /\ down[1].kind = "BAR_COMMIT" THEN 1 ELSE 0) = bar
      /\ wbar # None => wbar = committed /\ committed < nbars
      /\ LastKind(wt) \in {"INTENT_BATCH", "BROKER_EVENT_BATCH"} => wbar # None
  BY SMTT(30) DEF ProtocolInv, Boxes, WorkerOK, NothingAsked
<1>2. m.kind \in FromParent /\ m.kind # "BAR_COMMIT" /\ m.kind \notin Requests
  BY DEF FromParent, Requests
<1>3. /\ Len(down') = Len(down) + 1 /\ down'[Len(down) + 1] = m /\ down' # <<>>
      /\ \A n \in 1 .. Len(down) : down'[n] = down[n]
  BY <1>1, Appended
<1>4. down = <<>> <=> Len(down) = 0
  BY <1>1, EmptyLen
<1>5. (down' # <<>> /\ down'[1].kind = "BAR_COMMIT") <=> (down # <<>> /\ down[1].kind = "BAR_COMMIT")
  <2>1. CASE down = <<>>
    BY <2>1, <1>2, <1>3, <1>4
  <2>2. CASE down # <<>>
    BY <2>2, <1>1, <1>3, <1>4
  <2> QED BY <2>1, <2>2
<1>6. ASSUME NEW n \in 1 .. Len(down')
      PROVE  /\ down'[n].kind \in FromParent /\ down'[n].kind \notin Requests
             /\ down'[n].kind = "BAR_COMMIT" => n = 1
  <2>1. CASE n = Len(down) + 1
    BY <2>1, <1>2, <1>3
  <2>2. CASE n # Len(down) + 1
    <3>1. n \in 1 .. Len(down)
      BY <2>2, <1>1, <1>3
    <3> QED BY <3>1, <1>1, <1>3
  <2> QED BY <2>1, <2>2
<1>7. committed' + (IF down' # <<>> /\ down'[1].kind = "BAR_COMMIT" THEN 1 ELSE 0) = bar'
  BY <1>1, <1>5
<1> QED BY <1>1, <1>6, <1>7, Zenon DEF WorkerOK

LEMMA FinalizeKeeps == ProtocolInv /\ Finalize => ProtocolInv'
<1> SUFFICES ASSUME ProtocolInv, Finalize PROVE ProtocolInv'
  OBVIOUS
<1>1. /\ ppc = "engine" /\ ~closed /\ pt \in Seq(Messages) /\ wt \in Seq(Messages)
      /\ down \in Seq(Messages) /\ up \in Seq(Messages) /\ PipesOK(pt, wt, down, up, wst)
      /\ LastKind(pt) \in {"INIT_RUN", "BAR_COMMIT"} /\ Len(wt) <= Len(pt)
      /\ (wst = "run" => NothingAsked)
  BY DEF ProtocolInv, Boxes, ParentOK, Finalize, Opened, Talking
<1>2. SessionTypes'
  BY Zenon DEF ProtocolInv, SessionTypes, Finalize, worker, Places
<1>3. CASE ~commit
  <2>1. Mute /\ ppc' = "over"
    BY <1>3 DEF Finalize, Mute, worker
  <2> QED BY <1>2, <2>1, Leaves DEF Opened, Talking
<1>4. CASE commit
  <2> DEFINE m == Message(pt, "FINALIZE", None, None, <<>>)
  <2>1. /\ pt' = Append(pt, m) /\ down' = (IF CanWrite THEN Append(down, m) ELSE down)
        /\ ppc' = "wait" /\ UNCHANGED <<nbars, bar, iter, pending, applied, wst, wt, wbar,
                                         committed, tape, sent, up>>
    BY <1>4 DEF Finalize, worker
  <2>2. m \in Messages /\ m.kind = "FINALIZE" /\ Accepts(pt, m)
    <3>1. m = Message(pt, "FINALIZE", None, None, <<>>) /\ "FINALIZE" \in Kinds /\ None \in Int
          /\ MayFollow(pt, "FINALIZE")
      BY <1>1, FollowUps DEF Kinds, None
    <3> HIDE DEF m
    <3> QED BY <1>1, <3>1, MessagePlain
  <2> HIDE DEF m
  <2>3. wst = "run" => CanWrite /\ up = <<>>
    BY <1>1 DEF CanWrite, NothingAsked
  <2>4. pt' \in Seq(Messages) /\ down' \in Seq(Messages)
    BY <1>1, <2>1, <2>2, Appended, Zenon
  <2>5. PipesOK(Append(pt, m), wt, down', up, wst)
    BY <1>1, <2>1, <2>2, <2>3, <2>4, SendKeeps, Zenon
  <2>6. Boxes'
    BY <2>1, <2>4 DEF ProtocolInv, Boxes
  <2>7. Silence'
    BY <1>1, <2>1 DEF ProtocolInv, Silence, LastKind
  <2>8. WorkerOK'
    <3>1. CASE wst = "run"
      BY <1>1, <2>1, <2>2, <2>3, <3>1, LastWord
    <3>2. CASE wst # "run"
      BY <2>1, <3>2 DEF WorkerOK
    <3> QED BY <3>1, <3>2
  <2>9. ParentOK'
    BY <2>1 DEF ParentOK, Opened, Talking
  <2>10. Order'
    BY <2>1, Zenon DEF ProtocolInv, Order, IntentsInOrder
  <2> QED BY <1>2, <2>1, <2>5, <2>6, <2>7, <2>8, <2>9, <2>10 DEF ProtocolInv
<1> QED BY <1>3, <1>4

LEMMA AbortSessionKeeps == ProtocolInv /\ AbortSession => ProtocolInv'
<1> SUFFICES ASSUME ProtocolInv, AbortSession PROVE ProtocolInv'
  OBVIOUS
<1>1. /\ ppc = "abort" /\ pt \in Seq(Messages) /\ wt \in Seq(Messages)
      /\ down \in Seq(Messages) /\ up \in Seq(Messages) /\ PipesOK(pt, wt, down, up, wst)
      /\ (~closed /\ wst = "run" => NothingAsked)
  BY DEF ProtocolInv, Boxes, ParentOK, AbortSession
<1>2. SessionTypes'
  BY DEF ProtocolInv, SessionTypes, AbortSession, Cleanup, worker, Places
<1>3. ppc' = "kill" /\ UNCHANGED <<nbars, bar, iter, pending, applied, wst, wt, wbar,
                                    committed, tape, sent, up>>
  BY DEF AbortSession, Cleanup, worker
<1>4. CASE ~MayFollow(pt, "ABORT")
  <2>1. Mute
    BY <1>3, <1>4 DEF AbortSession, Mute
  <2> QED BY <1>2, <1>3, <2>1, Leaves DEF Opened, Talking
<1>5. CASE MayFollow(pt, "ABORT")
  <2> DEFINE m == Message(pt, "ABORT", None, None, <<>>)
  <2>1. pt' = Append(pt, m) /\ down' = (IF CanWrite THEN Append(down, m) ELSE down)
    BY <1>5 DEF AbortSession
  <2>2. m \in Messages /\ m.kind = "ABORT" /\ Accepts(pt, m)
    <3>1. m = Message(pt, "ABORT", None, None, <<>>) /\ "ABORT" \in Kinds /\ None \in Int
      BY DEF Kinds, None
    <3> HIDE DEF m
    <3> QED BY <1>1, <1>5, <3>1, MessagePlain
  <2> HIDE DEF m
  <2>3. pt # <<>> /\ LastKind(pt) # "ABORT"
    BY <1>1, <1>5, FollowUps
  <2>4. pt' \in Seq(Messages) /\ down' \in Seq(Messages)
    BY <1>1, <2>1, <2>2, Appended, Zenon
  <2>5. wst = "run" /\ CanWrite => NothingAsked
    BY <1>1 DEF CanWrite
  <2>6. PipesOK(Append(pt, m), wt, down', up, wst)
    <3>1. PipesOK(Append(pt, m), wt, down, up, wst)
      BY <1>1, <2>2, <2>3, AbortKeeps
    <3>2. CASE ~CanWrite
      BY <2>1, <3>1, <3>2
    <3>3. CASE wst # "run"
      BY <3>1, <3>3, DeafKeeps
    <3>4. CASE CanWrite /\ wst = "run"
      <4>1. up = <<>> /\ down' = Append(down, m)
        BY <2>1, <2>5, <3>4 DEF NothingAsked
      <4>2. Len(wt) <= Len(pt)
        <5>1. Behind(pt, wt, down) /\ Len(wt) \in Nat /\ Len(down) \in Nat /\ Len(pt) \in Nat
          BY <1>1, <3>4, <4>1 DEF PipesOK
        <5> QED BY <5>1 DEF Behind
      <4> QED BY <1>1, <2>2, <2>3, <2>4, <4>1, <4>2, SendKeeps, Zenon
    <3> QED BY <3>2, <3>3, <3>4
  <2>7. Boxes'
    BY <1>3, <2>4 DEF ProtocolInv, Boxes
  <2>8. Silence'
    BY <1>3, <2>3 DEF ProtocolInv, Silence
  <2>9. WorkerOK'
    <3>1. CASE wst = "run" /\ CanWrite
      BY <1>3, <2>1, <2>2, <2>5, <3>1, LastWord
    <3>2. CASE ~CanWrite
      BY <1>3, <2>1, <3>2, SameWorker
    <3>3. CASE wst # "run"
      BY <1>3, <3>3 DEF WorkerOK
    <3> QED BY <3>1, <3>2, <3>3
  <2>10. ParentOK'
    BY <1>3 DEF ParentOK, Opened, Talking
  <2>11. Order'
    BY <1>3, Zenon DEF ProtocolInv, Order, IntentsInOrder
  <2> QED BY <1>2, <1>3, <2>1, <2>6, <2>7, <2>8, <2>9, <2>10, <2>11 DEF ProtocolInv
<1> QED BY <1>4, <1>5

(* HELLO arrives and LOAD_ARTIFACT and INIT_RUN are recorded and sent.     *)
LEMMA HelloKeeps ==
    ASSUME ProtocolInv, ppc = "hello", ReadHello, Reading({"HELLO"}), up' = Tail(up)
    PROVE  \E l, i \in Messages :
             /\ l.kind = "LOAD_ARTIFACT" /\ i.kind = "INIT_RUN"
             /\ pt' \in Seq(Messages) /\ down' \in Seq(Messages) /\ up' = <<>>
             /\ Len(wt) <= Len(pt') /\ wt # <<>>
             /\ PipesOK(pt', wt, down', up', wst)
             /\ \/ CanWrite /\ ppc' = "engine" /\ down' = Append(Append(down, l), i)
                   /\ LastKind(pt') = "INIT_RUN"
                \/ ~CanWrite /\ wst = "exited" /\ ppc' = "kill"
<1>1. /\ pt = <<>> /\ ~closed /\ pt \in Seq(Messages) /\ wt \in Seq(Messages)
      /\ down \in Seq(Messages) /\ up \in Seq(Messages) /\ PipesOK(pt, wt, down, up, wst)
      /\ LastKind(pt) = "none"
  BY DEF ProtocolInv, Boxes, ParentOK, Opened, LastKind
<1> DEFINE h == Head(up)
           t1 == Append(pt, h)
           l == Message(t1, "LOAD_ARTIFACT", None, None, <<>>)
           t2 == Append(t1, l)
           i == Message(t2, "INIT_RUN", None, None, <<>>)
           t3 == Append(t2, i)
<1>2. up # <<>> /\ h.kind = "HELLO" /\ h \in Messages
  BY <1>1, Headed DEF Reading
<1>3. PipesOK(t1, wt, down, <<>>, wst) /\ Tail(up) = <<>> /\ Len(wt) = Len(pt) + Len(up)
      /\ Len(up) = 1
  <2>1. /\ pt \in Seq(Messages) /\ wt \in Seq(Messages) /\ down \in Seq(Messages)
        /\ up \in Seq(Messages) /\ PipesOK(pt, wt, down, up, wst) /\ up # <<>>
        /\ Head(up).kind = "HELLO" /\ LastKind(pt) # "ABORT"
    BY <1>1, <1>2
  <2>2. /\ PipesOK(Append(pt, Head(up)), wt, down, Tail(up), wst)
        /\ Len(wt) = Len(pt) + Len(up) /\ Tail(up) = <<>> /\ Len(up) = 1
    BY <2>1, ReadKeeps
  <2> QED BY <2>2, Zenon
<1>4. t1 \in Seq(Messages) /\ Len(t1) = Len(pt) + 1 /\ LastKind(t1) = "HELLO" /\ Len(pt) = 0
  <2> HIDE DEF h
  <2> QED BY <1>1, <1>2, Appended, LastKindNew, EmptyLen, Zenon
<1>5. \/ CanWrite /\ pt' = t1 \o <<l, i>> /\ down' = down \o <<l, i>> /\ ppc' = "engine"
      \/ ~CanWrite /\ pt' = t2 /\ ppc' = "kill" /\ down' = down
      \/ BadRead({"HELLO"})
  BY Zenon DEF ReadHello, Cleanup
<1>6. ~BadRead({"HELLO"})
  BY Zenon DEF Reading, BadRead
<1> HIDE DEF t1, h
<1>7. l \in Messages /\ l.kind = "LOAD_ARTIFACT" /\ Accepts(t1, l)
  <2>1. l = Message(t1, "LOAD_ARTIFACT", None, None, <<>>) /\ "LOAD_ARTIFACT" \in Kinds
        /\ None \in Int /\ MayFollow(t1, "LOAD_ARTIFACT")
    BY <1>4, FollowUps DEF Kinds, None
  <2> HIDE DEF l
  <2> QED BY <1>4, <2>1, MessagePlain
<1> HIDE DEF l
<1>8. t2 \in Seq(Messages) /\ Len(t2) = Len(t1) + 1 /\ LastKind(t2) = "LOAD_ARTIFACT"
  BY <1>4, <1>7, Appended, LastKindNew, Zenon
<1> HIDE DEF t2
<1>9. i \in Messages /\ i.kind = "INIT_RUN" /\ Accepts(t2, i)
  <2>1. i = Message(t2, "INIT_RUN", None, None, <<>>) /\ "INIT_RUN" \in Kinds
        /\ None \in Int /\ MayFollow(t2, "INIT_RUN")
    BY <1>8, FollowUps DEF Kinds, None
  <2> HIDE DEF i
  <2> QED BY <1>8, <2>1, MessagePlain
<1> HIDE DEF i
<1>10. t3 \in Seq(Messages) /\ Len(t3) = Len(t2) + 1 /\ LastKind(t3) = "INIT_RUN"
  BY <1>8, <1>9, Appended, LastKindNew, Zenon
<1> HIDE DEF t3
<1>11. Append(down, l) \in Seq(Messages) /\ Append(Append(down, l), i) \in Seq(Messages)
  BY <1>1, <1>7, <1>9, Appended, Zenon
<1>12. wt # <<>> /\ Len(wt) = 1 /\ Len(t1) = 1
  BY <1>1, <1>3, <1>4, EmptyLen
<1>13. wst # "none" /\ wst # "boot" /\ wst \in {"none", "boot", "run", "exited"}
  BY <1>2 DEF ProtocolInv, Silence, SessionTypes
<1>14. CASE CanWrite
  <2>1. pt' = t3 /\ down' = Append(Append(down, l), i) /\ ppc' = "engine"
    <3>1. t1 \o <<l, i>> = Append(Append(t1, l), i) /\ down \o <<l, i>> = Append(Append(down, l), i)
      BY <1>1, <1>4, <1>7, <1>9, JoinedTwo
    <3> QED BY <1>5, <1>6, <1>14, <3>1 DEF t3, t2
  <2>2. PipesOK(t2, wt, Append(down, l), <<>>, wst)
    <3>1. LastKind(t1) # "ABORT" /\ Len(wt) <= Len(t1) /\ <<>> \in Seq(Messages)
      BY <1>4, <1>12
    <3>2. PipesOK(Append(t1, l), wt, Append(down, l), <<>>, wst)
      BY <1>1, <1>3, <1>4, <1>7, <1>11, <3>1, SendKeeps, Zenon
    <3> QED BY <3>2 DEF t2
  <2>3. PipesOK(t3, wt, Append(Append(down, l), i), <<>>, wst)
    <3>1. LastKind(t2) # "ABORT" /\ Len(wt) <= Len(t2)
      BY <1>8, <1>12
    <3> QED BY <1>1, <1>8, <1>9, <1>11, <2>2, <3>1, SendKeeps, Zenon DEF t3
  <2>4. Len(wt) <= Len(pt')
    BY <1>8, <1>10, <1>12, <2>1
  <2>5. up' = <<>>
    BY <1>3
  <2> QED BY <1>7, <1>9, <1>10, <1>11, <1>12, <1>14, <2>1, <2>3, <2>4, <2>5, Zenon
<1>15. CASE ~CanWrite
  <2>1. wst = "exited" /\ pt' = t2 /\ down' = down /\ ppc' = "kill"
    BY <1>1, <1>5, <1>6, <1>15 DEF CanWrite
  <2>2. PipesOK(t2, wt, down, <<>>, wst)
    <3>1. LastKind(t1) # "ABORT" /\ Len(wt) <= Len(t1) /\ wst # "run"
      BY <1>4, <1>12, <2>1
    <3> QED BY <1>1, <1>3, <1>4, <1>7, <3>1, SendKeeps, Zenon DEF t2
  <2>4. Len(wt) <= Len(pt')
    BY <1>8, <1>12, <2>1
  <2>5. up' = <<>>
    BY <1>3
  <2> QED BY <1>1, <1>7, <1>8, <1>9, <1>12, <1>15, <2>1, <2>2, <2>4, <2>5, Zenon
<1> QED BY <1>14, <1>15

LEMMA ReadHelloKeeps == ProtocolInv /\ ReadHello => ProtocolInv'
<1> SUFFICES ASSUME ProtocolInv, ReadHello PROVE ProtocolInv'
  OBVIOUS
<1>1. /\ ppc = "hello" /\ ~closed /\ applied = <<>> /\ iter = 0 /\ pt = <<>>
      /\ Len(tape) = Len(applied) /\ IntentsInOrder
  BY Zenon DEF ProtocolInv, ParentOK, Order, ReadHello, Opened
<1>2. SessionTypes'
  BY DEF ProtocolInv, SessionTypes, ReadHello, Cleanup, worker, Places
<1>3. UNCHANGED <<nbars, bar, iter, pending, applied, closed, wst, wt, wbar, committed, tape, sent>>
  BY DEF ReadHello, worker
<1>4. CASE Reading({"HELLO"}) /\ up' = Tail(up)
  <2>1. PICK l, i \in Messages :
             /\ l.kind = "LOAD_ARTIFACT" /\ i.kind = "INIT_RUN"
             /\ pt' \in Seq(Messages) /\ down' \in Seq(Messages) /\ up' = <<>>
             /\ Len(wt) <= Len(pt') /\ wt # <<>>
             /\ PipesOK(pt', wt, down', up', wst)
             /\ \/ CanWrite /\ ppc' = "engine" /\ down' = Append(Append(down, l), i)
                   /\ LastKind(pt') = "INIT_RUN"
                \/ ~CanWrite /\ wst = "exited" /\ ppc' = "kill"
    BY <1>1, <1>4, HelloKeeps, Zenon
  <2>2. Boxes'
    BY <1>3, <2>1 DEF ProtocolInv, Boxes
  <2>3. Silence'
    BY <1>3, <2>1 DEF ProtocolInv, Silence
  <2>4. wst = "run" => /\ ppc' = "engine" /\ Len(down') = 2 /\ down' # <<>>
                       /\ down'[1] = l /\ down'[2] = i /\ committed = bar
    <3> SUFFICES ASSUME wst = "run"
                 PROVE  /\ ppc' = "engine" /\ Len(down') = 2 /\ down' # <<>>
                        /\ down'[1] = l /\ down'[2] = i /\ committed = bar
      OBVIOUS
    <3>1. down = <<>>
      BY <1>4 DEF ProtocolInv, PipesOK, Reading
    <3> DEFINE a == Append(down, l)
    <3>2. ppc' = "engine" /\ down' = Append(a, i) /\ Len(down) = 0 /\ down \in Seq(Messages)
      BY <2>1, <3>1 DEF ProtocolInv, Boxes, CanWrite
    <3>3. a \in Seq(Messages) /\ Len(a) = 1 /\ a[1] = l
      BY <3>2, Appended
    <3> HIDE DEF a
    <3>5. Len(down') = 2 /\ down' # <<>> /\ down'[1] = l /\ down'[2] = i
      <4>1. 1 \in 1 .. Len(a) /\ Len(a) + 1 = 2
        BY <3>3
      <4>2. /\ Len(Append(a, i)) = Len(a) + 1 /\ Append(a, i) # <<>>
            /\ Append(a, i)[Len(a) + 1] = i /\ \A n \in 1 .. Len(a) : Append(a, i)[n] = a[n]
        BY <3>3, Appended, ZenonT(40)
      <4>3. /\ Len(down') = Len(a) + 1 /\ down' # <<>> /\ down'[Len(a) + 1] = i
            /\ \A n \in 1 .. Len(a) : down'[n] = a[n]
        BY <3>2, <4>2, Zenon
      <4> QED BY <3>3, <4>1, <4>3
    <3>4. committed = bar
      BY <3>1 DEF ProtocolInv, WorkerOK, SessionTypes
    <3> QED BY <3>2, <3>4, <3>5
  <2>5. WorkerOK'
    <3>1. wst = "run" => /\ wbar # None => wbar = committed /\ committed < nbars
                         /\ LastKind(wt) \in {"INTENT_BATCH", "BROKER_EVENT_BATCH"} => wbar # None
      BY Zenon DEF ProtocolInv, WorkerOK
    <3>2. bar \in Int /\ committed \in Int
      BY SessionAssumption DEF ProtocolInv, SessionTypes
    <3>3. ASSUME wst = "run", NEW n \in 1 .. Len(down')
          PROVE  down'[n].kind \in {"LOAD_ARTIFACT", "INIT_RUN"}
      <4>1. n = 1 \/ n = 2
        <5>1. Len(down') = 2 /\ n \in 1 .. Len(down')
          BY <2>4, <3>3, Zenon
        <5> QED BY <5>1
      <4> QED BY <2>1, <2>4, <3>3, <4>1, Zenon
    <3>4. wst = "run" => down'[1].kind # "BAR_COMMIT" /\ committed + 0 = bar
      BY <2>1, <2>4, <3>2
    <3> QED BY <1>3, <3>1, <3>3, <3>4 DEF WorkerOK, FromParent, Requests
  <2>6. ParentOK'
    <3>1. wst = "run" => NothingAsked'
      <4>1. ASSUME wst = "run", NEW n \in 1 .. Len(down')
            PROVE  down'[n].kind \in {"LOAD_ARTIFACT", "INIT_RUN"}
        <5>1. n = 1 \/ n = 2
          <6>1. Len(down') = 2 /\ n \in 1 .. Len(down')
            BY <2>4, <4>1, Zenon
          <6> QED BY <6>1
        <5> QED BY <2>1, <2>4, <4>1, <5>1
      <4> QED BY <2>1, <4>1 DEF NothingAsked, Requests
    <3> QED BY <1>1, <1>3, <2>1, <3>1 DEF ParentOK, Opened, Talking
  <2>7. Order'
    BY <1>1, <1>3, <2>1, Zenon DEF Order, IntentsInOrder
  <2> QED BY <1>2, <1>3, <2>1, <2>2, <2>3, <2>5, <2>6, <2>7 DEF ProtocolInv
<1>5. CASE ~(Reading({"HELLO"}) /\ up' = Tail(up))
  <2>1. Mute /\ ppc' = "kill"
    BY <1>3, <1>5 DEF ReadHello, Mute, Cleanup
  <2> QED BY <1>2, <2>1, Leaves DEF Opened, Talking
<1> QED BY <1>4, <1>5

-----------------------------------------------------------------------------
(* The worker's steps                                                      *)

LEMMA ErrorLine ==
    ASSUME NEW t \in Seq(Messages), NEW m, m = Message(t, "error", None, None, <<>>)
    PROVE  m \in Messages /\ m.kind = "error"
BY MessagePlain DEF Kinds, None

(* The worker leaves with an error line that nothing is before.            *)
LEMMA ErrorLeaves ==
    ASSUME ProtocolInv, SessionTypes', wst \in {"boot", "run"}, up = <<>>, wst' = "exited",
           up' = Append(up, Message(wt, "error", None, None, <<>>)), down' \in Seq(Messages),
           UNCHANGED <<nbars, parent, proc, worker>>
    PROVE  ProtocolInv'
<1> DEFINE m == Message(wt, "error", None, None, <<>>)
<1>1. up' = Append(<<>>, m) /\ wt \in Seq(Messages)
  BY DEF ProtocolInv, Boxes
<1>2. m \in Messages /\ m.kind = "error"
  <2>1. m = Message(wt, "error", None, None, <<>>)
    OBVIOUS
  <2> HIDE DEF m
  <2> QED BY <1>1, <2>1, ErrorLine
<1> HIDE DEF m
<1>3. up' \in Seq(Messages) /\ Len(up') = 1 /\ up'[1] = m
  BY <1>1, <1>2, Appended
<1>4. UNCHANGED <<nbars, ppc, pt, bar, iter, pending, applied, closed, wt, tape>>
  BY DEF parent, worker
<1>5. Boxes'
  BY <1>3, <1>4 DEF ProtocolInv, Boxes
<1>6. PipesOK(pt, wt, down, up, wst)'
  <2>1. PipesOK(pt, wt, down, <<>>, wst)
    BY DEF ProtocolInv
  <2>2. PipesOK(pt, wt, down', Append(<<>>, m), "exited")
    BY <1>2, <2>1, ErrorKeeps, Zenon
  <2> QED BY <1>1, <1>4, <2>2, Zenon
<1>7. Silence' /\ WorkerOK'
  BY DEF Silence, WorkerOK
<1>8. ParentOK'
  BY <1>4 DEF ProtocolInv, ParentOK
<1>9. Order'
  BY <1>2, <1>3, <1>4, Zenon DEF ProtocolInv, Order, IntentsInOrder, Rest
<1> QED BY <1>5, <1>6, <1>7, <1>8, <1>9, Zenon DEF ProtocolInv

LEMMA WorkerFailsKeeps == ProtocolInv /\ WorkerFails => ProtocolInv'
<1> SUFFICES ASSUME ProtocolInv, WorkerFails PROVE ProtocolInv'
  OBVIOUS
<1>1. SessionTypes'
  BY DEF ProtocolInv, SessionTypes, WorkerFails, parent, worker
<1>2. wst = "run" /\ down # <<>> /\ down' = Tail(down) /\ down \in Seq(Messages)
  BY DEF ProtocolInv, Boxes, WorkerFails
<1>3. up = <<>> /\ down' \in Seq(Messages)
  BY <1>2, Headed DEF ProtocolInv, PipesOK
<1> QED BY <1>1, <1>2, <1>3, ErrorLeaves DEF WorkerFails

LEMMA WorkerBootKeeps == ProtocolInv /\ WorkerBoot => ProtocolInv'
<1> SUFFICES ASSUME ProtocolInv, WorkerBoot PROVE ProtocolInv'
  OBVIOUS
<1>1. SessionTypes'
  BY DEF ProtocolInv, SessionTypes, WorkerBoot, parent
<1>2. /\ wst = "boot" /\ pt = <<>> /\ wt = <<>> /\ down = <<>> /\ up = <<>> /\ tape = <<>>
      /\ bar = 0 /\ committed = 0 /\ wbar = None
      /\ UNCHANGED <<nbars, parent, proc, wbar, committed, tape, sent, down>>
  BY DEF ProtocolInv, Silence, WorkerBoot
<1>3. CASE wst' = "exited"
  <2>1. up' = Append(up, Message(wt, "error", None, None, <<>>)) /\ wt' = wt
    BY <1>3 DEF WorkerBoot
  <2>2. down' \in Seq(Messages) /\ UNCHANGED worker
    BY <1>2, <2>1 DEF ProtocolInv, Boxes, worker
  <2> QED BY <1>1, <1>2, <1>3, <2>1, <2>2, ErrorLeaves
<1>4. CASE wst' = "run"
  <2> DEFINE h == Message(wt, "HELLO", None, None, <<>>)
  <2>1. wt' = <<h>> /\ up' = Append(up, h)
    BY <1>4 DEF WorkerBoot
  <2>2. h \in Messages /\ h.kind = "HELLO" /\ Accepts(wt, h)
    <3>1. h = Message(wt, "HELLO", None, None, <<>>) /\ "HELLO" \in Kinds /\ None \in Int
          /\ wt \in Seq(Messages) /\ MayFollow(wt, "HELLO")
      BY <1>2 DEF Kinds, None, MayFollow
    <3> HIDE DEF h
    <3> QED BY <3>1, MessagePlain
  <2> HIDE DEF h
  <2>3. UNCHANGED <<nbars, ppc, pt, bar, iter, pending, applied, closed, tape, down>>
    BY <1>2 DEF parent
  <2>4. wt' = Append(<<>>, h) /\ up' = Append(<<>>, h)
    BY <1>2, <2>1
  <2>5. /\ wt' \in Seq(Messages) /\ up' \in Seq(Messages) /\ wt' # <<>> /\ up' # <<>>
        /\ Len(wt') = 1 /\ Len(up') = 1 /\ wt'[1] = h /\ up'[1] = h
    BY <2>2, <2>4, Appended
  <2>6. Boxes'
    BY <2>3, <2>5 DEF ProtocolInv, Boxes
  <2>7. PipesOK(pt, wt, down, up, wst)'
    <3>1. Chained(pt') /\ Chained(wt')
      <4>1. Chained(<<>>) /\ <<>> \in Seq(Messages)
        BY DEF Chained
      <4>2. Chained(Append(<<>>, h))
        BY <1>2, <2>2, <4>1, ChainGrows, Zenon
      <4> QED BY <1>2, <2>3, <2>4, <4>1, <4>2
    <3>2. Ahead(pt', wt', up')
      <4>1. Core(pt') = 0
        BY <1>2, <2>3 DEF Core, LastKind
      <4> QED BY <2>2, <2>5, <4>1 DEF Ahead, FromWorker
    <3> QED BY <1>2, <1>4, <2>3, <2>5, <3>1, <3>2 DEF PipesOK
  <2>8. Silence'
    BY <1>4 DEF Silence
  <2>9. WorkerOK'
    <3>1. LastKind(wt') = "HELLO"
      BY <2>2, <2>5 DEF LastKind
    <3> QED BY <1>2, <2>3, <3>1 DEF WorkerOK, None
  <2>10. ppc \notin {"spawn", "engine", "intents", "result", "apply", "decide"}
         /\ (ppc = "abort" => closed)
    BY <1>2 DEF ProtocolInv, ParentOK, LastKind
  <2>11. ParentOK'
    BY <2>3, <2>10 DEF ProtocolInv, ParentOK, Opened, Talking
  <2>12. Order'
    BY <2>3, <2>10, Zenon DEF ProtocolInv, Order, IntentsInOrder
  <2> QED BY <1>1, <2>6, <2>7, <2>8, <2>9, <2>11, <2>12, Zenon DEF ProtocolInv
<1> QED BY <1>3, <1>4 DEF WorkerBoot

(* The worker ends without a word, or the process the parent started does. *)
LEMMA WorkerEndsKeeps == ProtocolInv /\ (WorkerEof \/ WorkerDies \/ ProcessEnds) => ProtocolInv'
<1> SUFFICES ASSUME ProtocolInv, WorkerEof \/ WorkerDies \/ ProcessEnds PROVE ProtocolInv'
  OBVIOUS
<1>1. ppc = "spawn" => wst = "none"
  BY DEF ProtocolInv, ParentOK
<1>2. wst = "run" /\ wbar # None => committed + 1 \in 0 .. MaxBars
  BY SessionAssumption DEF ProtocolInv, WorkerOK, SessionTypes
<1>3. CASE WorkerEof
  <2>1. Mute /\ ppc' = ppc /\ closed' = closed /\ ppc # "spawn"
    BY <1>1, <1>3 DEF WorkerEof, Mute, parent
  <2>2. SessionTypes'
    <3>1. committed' \in 0 .. MaxBars /\ wbar' \in None .. MaxBars - 1
      BY <1>2, <1>3, SessionAssumption DEF WorkerEof, CommitCurrent, ProtocolInv, SessionTypes, None
    <3> QED BY <1>3, <3>1 DEF WorkerEof, parent, ProtocolInv, SessionTypes
  <2> QED BY <2>1, <2>2, Stays
<1>4. CASE WorkerDies
  <2>1. Mute /\ ppc' = ppc /\ closed' = closed /\ ppc # "spawn"
    BY <1>1, <1>4 DEF WorkerDies, Mute, parent, worker
  <2>2. SessionTypes'
    BY <1>4 DEF WorkerDies, parent, worker, ProtocolInv, SessionTypes
  <2> QED BY <2>1, <2>2, Stays
<1>5. CASE ProcessEnds
  <2>1. Mute /\ ppc' = ppc /\ closed' = closed /\ wst' = wst
    BY <1>5 DEF ProcessEnds, Mute, parent, worker
  <2>2. SessionTypes'
    BY <1>5 DEF ProcessEnds, parent, worker, ProtocolInv, SessionTypes
  <2> QED BY <2>1, <2>2, Stays
<1> QED BY <1>3, <1>4, <1>5

(* What the worker finds when it receives a message.                       *)
LEMMA Receives ==
    ASSUME ProtocolInv, wst = "run", down # <<>>
    PROVE  /\ up = <<>> /\ Head(down) \in Messages /\ Head(down) = down[1]
           /\ Tail(down) \in Seq(Messages) /\ Len(down) \in Nat \ {0}
           /\ Len(Tail(down)) = Len(down) - 1
           /\ \A n \in 1 .. Len(down) - 1 : Tail(down)[n] = down[n + 1]
           /\ ppc \notin {"spawn", "hello", "apply", "decide"}
           /\ (ppc = "engine" \/ (ppc = "abort" /\ ~closed)) => NothingAsked
           /\ ppc = "engine" => Len(wt) + 1 <= Len(pt)
<1>1. /\ pt \in Seq(Messages) /\ wt \in Seq(Messages) /\ down \in Seq(Messages)
      /\ up = <<>> /\ Behind(pt, wt, down) /\ wt # <<>>
  BY DEF ProtocolInv, Boxes, PipesOK
<1>2. /\ Head(down) \in Messages /\ Head(down) = down[1]
      /\ Tail(down) \in Seq(Messages) /\ Len(down) \in Nat \ {0}
      /\ Len(Tail(down)) = Len(down) - 1
      /\ \A n \in 1 .. Len(down) - 1 : Tail(down)[n] = down[n + 1]
  BY <1>1, Headed
<1>3. Len(pt) \in Nat /\ Len(wt) \in Nat /\ (pt = <<>> <=> Len(pt) = 0)
  BY <1>1, EmptyLen
<1>4. pt # <<>>
  BY <1>1, <1>2, <1>3 DEF Behind, LastKind
<1>5. /\ ppc \notin {"spawn", "hello", "apply", "decide"}
      /\ (ppc = "engine" \/ (ppc = "abort" /\ ~closed)) => NothingAsked
      /\ ppc = "engine" => LastKind(pt) \in {"INIT_RUN", "BAR_COMMIT"}
  BY <1>4 DEF ProtocolInv, ParentOK, Talking
<1>6. ppc = "engine" => Len(wt) + 1 <= Len(pt)
  BY <1>1, <1>2, <1>3, <1>5 DEF Behind
<1> QED BY <1>1, <1>2, <1>5, <1>6

(* A message the worker takes without an answer.                           *)
LEMMA TakesOne ==
    ASSUME ProtocolInv, SessionTypes', wst = "run", down # <<>>, Accepts(wt, Head(down)),
           wt' = Append(wt, Head(down)), down' = Tail(down), up' = up, wst' \in {"run", "exited"},
           wst' = "run" => WorkerOK', tape' = tape, UNCHANGED <<nbars, parent>>
    PROVE  ProtocolInv'
<1>1. /\ up = <<>> /\ Head(down) \in Messages
      /\ Tail(down) \in Seq(Messages) /\ Len(down) \in Nat \ {0} /\ Len(Tail(down)) = Len(down) - 1
      /\ \A n \in 1 .. Len(down) - 1 : Tail(down)[n] = down[n + 1]
      /\ ppc \notin {"spawn", "hello", "apply", "decide"}
      /\ (ppc = "engine" \/ (ppc = "abort" /\ ~closed)) => NothingAsked
      /\ ppc = "engine" => Len(wt) + 1 <= Len(pt)
  BY Receives
<1>2. UNCHANGED <<nbars, ppc, pt, bar, iter, pending, applied, closed, tape>>
  BY DEF parent
<1>3. /\ pt \in Seq(Messages) /\ wt \in Seq(Messages) /\ down \in Seq(Messages)
      /\ PipesOK(pt, wt, down, <<>>, "run")
  BY <1>1 DEF ProtocolInv, Boxes
<1>4. wt' \in Seq(Messages) /\ Len(wt') = Len(wt) + 1 /\ wt' # <<>>
  BY <1>1, <1>3, Appended
<1>5. PipesOK(pt, wt, down, up, wst)'
  <2>1. PipesOK(pt, Append(wt, Head(down)), Tail(down), <<>>, wst')
    BY <1>3, TakeKeeps
  <2> QED BY <1>1, <1>2, <2>1
<1>6. Boxes'
  BY <1>1, <1>2, <1>4 DEF ProtocolInv, Boxes
<1>7. Silence' /\ WorkerOK'
  BY DEF Silence, WorkerOK
<1>8. ParentOK'
  <2>1. (ppc = "engine" \/ (ppc = "abort" /\ ~closed)) => NothingAsked'
    <3>1. ASSUME NothingAsked PROVE NothingAsked'
      <4>1. ASSUME NEW n \in 1 .. Len(down') PROVE down'[n].kind \notin Requests
        <5>1. n \in 1 .. Len(down) - 1 /\ n + 1 \in 1 .. Len(down)
          BY <1>1
        <5> QED BY <1>1, <3>1, <5>1 DEF NothingAsked
      <4> QED BY <1>1, <4>1 DEF NothingAsked
    <3> QED BY <1>1, <3>1
  <2>2. ppc = "engine" => Len(wt') <= Len(pt')
    BY <1>1, <1>2, <1>4
  <2> QED BY <1>1, <1>2, <2>1, <2>2 DEF ProtocolInv, ParentOK, Opened, Talking
<1>9. Order'
  BY <1>1, <1>2, Zenon DEF ProtocolInv, Order, IntentsInOrder, Rest
<1> QED BY <1>5, <1>6, <1>7, <1>8, <1>9 DEF ProtocolInv

(* The messages behind the one the worker takes.                           *)
LEMMA Shifted ==
    ASSUME ProtocolInv, wst = "run", down # <<>>, Head(down).kind \notin Requests,
           down' = Tail(down), bar' = bar, iter' = iter, nbars' = nbars
    PROVE  /\ ~(down' # <<>> /\ down'[1].kind = "BAR_COMMIT")
           /\ \A n \in 1 .. Len(down') :
                /\ down'[n].kind \in FromParent
                /\ down'[n].kind = "BAR_COMMIT" => n = 1
                /\ down'[n].kind \in Requests =>
                     n = Len(down') /\ down'[n].bar = bar' /\ down'[n].iter = iter' /\ bar' < nbars'
<1>1. /\ Tail(down) \in Seq(Messages) /\ Len(down) \in Nat \ {0} /\ Len(Tail(down)) = Len(down) - 1
      /\ \A n \in 1 .. Len(down) - 1 : Tail(down)[n] = down[n + 1]
  BY Receives
<1>2. \A n \in 1 .. Len(down) :
           /\ down[n].kind \in FromParent
           /\ down[n].kind = "BAR_COMMIT" => n = 1
           /\ down[n].kind \in Requests =>
                n = Len(down) /\ down[n].bar = bar /\ down[n].iter = iter /\ bar < nbars
  BY DEF ProtocolInv, WorkerOK
<1>3. ASSUME NEW n \in 1 .. Len(down')
      PROVE  /\ down'[n].kind \in FromParent
             /\ down'[n].kind # "BAR_COMMIT"
             /\ down'[n].kind \in Requests =>
                  n = Len(down') /\ down'[n].bar = bar' /\ down'[n].iter = iter' /\ bar' < nbars'
  <2>1. n \in 1 .. Len(down) - 1 /\ n + 1 \in 1 .. Len(down) /\ n + 1 # 1
    BY <1>1
  <2>2. down'[n] = down[n + 1]
    <3>1. Tail(down)[n] = down[n + 1]
      BY <1>1, <2>1, Zenon
    <3> QED BY <3>1, Zenon
  <2>3. n + 1 = Len(down) => n = Len(down')
    <3>1. Len(down') = Len(down) - 1
      BY <1>1, Zenon
    <3>2. n + 1 = Len(down) => n = Len(down) - 1
      <4>1. n \in Int /\ Len(down) \in Int
        BY <1>1, <2>1
      <4> QED BY <4>1
    <3> QED BY <3>1, <3>2, Zenon
  <2> QED BY <1>2, <2>1, <2>2, <2>3
<1>4. down' # <<>> => 1 \in 1 .. Len(down')
  <2>1. Len(down') \in Nat /\ (down' = <<>> <=> Len(down') = 0)
    BY <1>1, EmptyLen, Zenon
  <2> QED BY <2>1
<1> QED BY <1>3, <1>4

(* LOAD_ARTIFACT, INIT_RUN and BROKER_EVENT_BATCH are recorded.            *)
LEMMA ReceivePlain ==
    ASSUME ProtocolInv, WorkerReceive, SessionTypes', Head(down).kind \in {"LOAD_ARTIFACT", "INIT_RUN", "BROKER_EVENT_BATCH"}
    PROVE  ProtocolInv'
<1>1. /\ wst = "run" /\ down # <<>> /\ Accepts(wt, Head(down)) /\ wt' = Append(wt, Head(down))
      /\ down' = Tail(down) /\ UNCHANGED <<wst, wbar, committed, tape, sent, up, nbars, parent>>
  BY Zenon DEF WorkerReceive
<1>2. Head(down) \in Messages /\ Head(down) = down[1] /\ Head(down).kind \notin Requests
  BY <1>1, Receives DEF Requests
<1>3. wt \in Seq(Messages) /\ committed \in Int
  BY SessionAssumption DEF ProtocolInv, Boxes, SessionTypes
<1>4. bar' = bar /\ iter' = iter
  BY <1>1 DEF parent
<1>5. WorkerOK'
  <2>1. committed = bar /\ (wbar # None => wbar = committed /\ committed < nbars)
    <3>1. down[1].kind # "BAR_COMMIT"
      BY <1>2
    <3>2. /\ committed + (IF down # <<>> /\ down[1].kind = "BAR_COMMIT" THEN 1 ELSE 0) = bar
          /\ wbar # None => wbar = committed /\ committed < nbars
      BY <1>1, Zenon DEF ProtocolInv, WorkerOK
    <3> QED BY <1>3, <3>1, <3>2
  <2>2. LastKind(wt') = Head(down).kind
    BY <1>1, <1>2, <1>3, LastKindNew
  <2>3. LastKind(wt') = "BROKER_EVENT_BATCH" => wbar # None
    <3>1. LastKind(wt') = "BROKER_EVENT_BATCH" => LastKind(wt) = "INTENT_BATCH"
      BY <1>1, <2>2 DEF Accepts, MayFollow, AllowedAfter
    <3> QED BY <1>1, <3>1, Zenon DEF ProtocolInv, WorkerOK
  <2>4. committed' + 0 = bar'
    BY <1>1, <1>3, <1>4, <2>1
  <2> QED BY <1>1, <1>2, <1>4, <2>1, <2>2, <2>3, <2>4, Shifted DEF WorkerOK
<1> QED BY <1>1, <1>5, TakesOne

(* BAR_COMMIT and the last message commit the bar that was begun.          *)
LEMMA ReceiveCommit ==
    ASSUME ProtocolInv, WorkerReceive, SessionTypes', Head(down).kind \in {"BAR_COMMIT", "FINALIZE", "ABORT"}
    PROVE  ProtocolInv'
<1>1. /\ wst = "run" /\ down # <<>> /\ Accepts(wt, Head(down)) /\ wt' = Append(wt, Head(down))
      /\ down' = Tail(down) /\ CommitCurrent /\ UNCHANGED <<tape, sent, up, nbars, parent>>
      /\ IF Head(down).kind = "BAR_COMMIT" THEN wst' = wst ELSE wst' = "exited"
  BY DEF WorkerReceive
<1>2. Head(down) \in Messages /\ Head(down) = down[1] /\ Head(down).kind \notin Requests
  BY <1>1, Receives DEF Requests
<1>3. wt \in Seq(Messages) /\ committed \in Int
  BY SessionAssumption DEF ProtocolInv, Boxes, SessionTypes
<1>4. bar' = bar /\ iter' = iter
  BY <1>1 DEF parent
<1>5. CASE Head(down).kind # "BAR_COMMIT"
  BY <1>1, <1>5, TakesOne
<1>6. CASE Head(down).kind = "BAR_COMMIT"
  <2>1. committed + 1 = bar
    BY <1>1, <1>2, <1>6, Zenon DEF ProtocolInv, WorkerOK
  <2>2. LastKind(wt) \in {"INTENT_BATCH", "BROKER_EVENT_BATCH"}
    BY <1>1, <1>6 DEF Accepts, MayFollow, AllowedAfter
  <2>3. wbar # None /\ committed' = committed + 1 /\ wbar' = None
    BY <1>1, <2>2, Zenon DEF ProtocolInv, WorkerOK, CommitCurrent
  <2>4. LastKind(wt') = "BAR_COMMIT"
    BY <1>1, <1>2, <1>3, <1>6, LastKindNew
  <2>5. WorkerOK'
    <3>1. committed' + 0 = bar'
      BY <1>3, <1>4, <2>1, <2>3
    <3> QED BY <1>1, <1>2, <1>4, <2>3, <2>4, <3>1, Shifted DEF WorkerOK
  <2> QED BY <1>1, <1>6, <2>5, TakesOne
<1> QED BY <1>5, <1>6

(* What the worker's callback adds to its tape is its batch.               *)
LEMMA Fresh ==
    ASSUME NEW tp \in Seq(Intents), NEW e \in Intents, NEW new,
           new = <<>> \/ new = <<e>>
    PROVE  /\ new \in Seq(Intents) /\ Len(new) \in Nat
           /\ tp \o new \in Seq(Intents) /\ Len(tp \o new) = Len(tp) + Len(new)
           /\ SubSeq(tp \o new, Len(tp) + 1, Len(tp \o new)) = new
           /\ \A n \in 1 .. Len(tp) : (tp \o new)[n] = tp[n]
           /\ \A n \in 1 .. Len(new) : new[n] = (tp \o new)[Len(tp) + n] /\ new[n] = e
<1>1. CASE new = <<>>
  <2>1. tp \o <<>> = tp /\ Len(tp) \in Nat /\ <<>> \in Seq(Intents) /\ Len(<<>>) = 0
    OBVIOUS
  <2>2. SubSeq(tp, Len(tp) + 1, Len(tp)) = <<>>
    <3>1. /\ SubSeq(tp, Len(tp) + 1, Len(tp)) \in Seq(Intents)
          /\ Len(SubSeq(tp, Len(tp) + 1, Len(tp))) = 0
      BY <2>1
    <3> QED BY <3>1, EmptyLen
  <2> QED BY <1>1, <2>1, <2>2
<1>2. CASE new = <<e>>
  <2>1. /\ <<e>> \in Seq(Intents) /\ Len(<<e>>) = 1 /\ <<e>>[1] = e
    OBVIOUS
  <2>2. tp \o <<e>> = Append(tp, e)
    BY JoinedOne
  <2>3. /\ Append(tp, e) \in Seq(Intents) /\ Len(Append(tp, e)) = Len(tp) + 1
        /\ \A n \in 1 .. Len(tp) : Append(tp, e)[n] = tp[n]
        /\ Append(tp, e)[Len(tp) + 1] = e /\ Len(tp) \in Nat
    BY Appended
  <2>4. SubSeq(Append(tp, e), Len(tp) + 1, Len(tp) + 1) = <<e>>
    <3> DEFINE q == Append(tp, e)
               L == Len(tp) + 1
    <3>1. q \in Seq(Intents) /\ Len(q) = L /\ q[L] = e /\ L \in Nat \ {0}
      BY <2>3
    <3> HIDE DEF q, L
    <3>2. /\ SubSeq(q, L, L) = [n \in 1 .. 1 |-> q[L + n - 1]]
      BY <3>1
    <3>3. <<e>> = [n \in 1 .. 1 |-> e]
      OBVIOUS
    <3>4. \A n \in 1 .. 1 : q[L + n - 1] = e
      BY <3>1
    <3> QED BY <3>2, <3>3, <3>4, Zenon DEF q, L
  <2>5. \A n \in 1 .. Len(<<e>>) : <<e>>[n] = Append(tp, e)[Len(tp) + n] /\ <<e>>[n] = e
    <3>1. ASSUME NEW n \in 1 .. Len(<<e>>) PROVE n = 1
      BY <2>1
    <3> QED BY <2>1, <2>3, <3>1
  <2> QED BY <1>2, <2>1, <2>2, <2>3, <2>4, <2>5, Zenon
<1> QED BY <1>1, <1>2

LEMMA MessageBatch ==
    ASSUME NEW t \in Seq(Messages), NEW k \in Kinds, NEW b \in Int, NEW i \in Int,
           NEW batch \in Seq(Intents), NEW m, m = Message(t, k, b, i, batch)
    PROVE  /\ m \in Messages /\ m.kind = k /\ m.batch = batch
           /\ MayFollow(t, k) => Accepts(t, m)
<1>1. Len(t) \in Nat /\ LastKind(t) \in Kinds \cup {"none"}
  BY LastKindIs
<1> QED BY <1>1, Zenon DEF Message, Messages, Accepts

(* The answer to a request: what ProcessBar puts on the tape and sends.    *)
Answers(t, e, a) ==
    /\ a \in Messages /\ a.kind = "INTENT_BATCH" /\ Accepts(t, a)
    /\ wt' = Append(t, a) /\ up' = up \o SubSeq(t, Len(wt) + 2, Len(t)) \o <<a>>
    /\ tape' \in Seq(Intents) /\ sent' = Len(tape')
    /\ Len(tape') = Len(tape) + Len(a.batch)
    /\ \A n \in 1 .. Len(tape) : tape'[n] = tape[n]
    /\ \A n \in 1 .. Len(a.batch) : a.batch[n] = tape'[Len(tape) + n] /\ a.batch[n] = e

LEMMA ProcessAnswers ==
    ASSUME NEW m \in Messages, NEW t \in Seq(Messages), MayFollow(t, "INTENT_BATCH"),
           tape \in Seq(Intents), sent = Len(tape), committed \in Int, ProcessBar(m, t)
    PROVE  \E a : Answers(t, [bar |-> m.bar, iter |-> m.iter, after |-> committed], a)
<1> DEFINE e == [bar |-> m.bar, iter |-> m.iter, after |-> committed]
<1>1. m.bar \in Int /\ m.iter \in Int /\ "INTENT_BATCH" \in Kinds
  BY DEF Messages, Kinds
<1>2. e \in Intents
  BY <1>1, Zenon DEF Intents
<1>3. PICK new \in {<<>>, <<e>>} :
        LET batch == SubSeq(tape \o new, sent + 1, Len(tape \o new))
            a == Message(t, "INTENT_BATCH", m.bar, m.iter, batch)
        IN  /\ tape' = tape \o new /\ sent' = Len(tape \o new) /\ wt' = Append(t, a)
            /\ up' = up \o SubSeq(t, Len(wt) + 2, Len(t)) \o <<a>>
  BY Zenon DEF ProcessBar
<1> HIDE DEF e
<1> DEFINE batch == SubSeq(tape \o new, sent + 1, Len(tape \o new))
           a == Message(t, "INTENT_BATCH", m.bar, m.iter, batch)
<1>4. /\ new \in Seq(Intents) /\ Len(new) \in Nat
      /\ tape \o new \in Seq(Intents) /\ Len(tape \o new) = Len(tape) + Len(new)
      /\ SubSeq(tape \o new, Len(tape) + 1, Len(tape \o new)) = new
      /\ \A n \in 1 .. Len(tape) : (tape \o new)[n] = tape[n]
      /\ \A n \in 1 .. Len(new) : new[n] = (tape \o new)[Len(tape) + n] /\ new[n] = e
  <2>1. new = <<>> \/ new = <<e>>
    OBVIOUS
  <2> QED BY <1>2, <2>1, Fresh, Zenon
<1>5. batch = new
  BY <1>4, Zenon
<1>6. a \in Messages /\ a.kind = "INTENT_BATCH" /\ a.batch = new /\ Accepts(t, a)
  <2>1. a = Message(t, "INTENT_BATCH", m.bar, m.iter, new)
    BY <1>5, Zenon
  <2> HIDE DEF a
  <2> QED BY <1>1, <1>4, <2>1, MessageBatch, SMTT(30)
<1> HIDE DEF batch
<1>7. /\ tape' = tape \o new /\ sent' = Len(tape \o new) /\ wt' = Append(t, a)
      /\ up' = up \o SubSeq(t, Len(wt) + 2, Len(t)) \o <<a>>
  BY <1>3, Zenon DEF batch
<1> HIDE DEF a
<1>8. Answers(t, e, a)
  BY <1>4, <1>6, <1>7, Zenon DEF Answers
<1> QED BY <1>8, Zenon DEF e

(* The steps that answer: the request was the last message and about the   *)
(* callback the engine is in.                                              *)
LEMMA Requested ==
    ASSUME ProtocolInv, wst = "run", down # <<>>, Head(down).kind \in Requests
    PROVE  /\ up = <<>> /\ Tail(down) = <<>> /\ Head(down) \in Messages
           /\ Head(down).bar = bar /\ Head(down).iter = iter /\ bar < nbars /\ committed = bar
           /\ ppc \notin Talking \cup {"spawn", "hello"} /\ (ppc = "abort" => closed)
           /\ committed \in Int /\ nbars <= MaxBars /\ bar \in Nat
<1>1. /\ up = <<>> /\ Head(down) \in Messages /\ Head(down) = down[1]
      /\ Tail(down) \in Seq(Messages) /\ Len(down) \in Nat \ {0}
      /\ Len(Tail(down)) = Len(down) - 1
      /\ ppc \notin {"spawn", "hello", "apply", "decide"}
      /\ (ppc = "engine" \/ (ppc = "abort" /\ ~closed)) => NothingAsked
  BY Receives
<1>2. 1 \in 1 .. Len(down)
  BY <1>1
<1>3. /\ 1 = Len(down) /\ Head(down).bar = bar /\ Head(down).iter = iter /\ bar < nbars
      /\ committed + 0 = bar
  BY <1>1, <1>2, Zenon DEF ProtocolInv, WorkerOK, Requests
<1>4. Tail(down) = <<>>
  <2>1. Len(Tail(down)) = 0
    <3>1. Len(Tail(down)) = Len(down) - 1 /\ Len(down) = 1
      BY <1>1, <1>3, Zenon
    <3>2. Len(Tail(down)) = 1 - 1
      BY <3>1, Zenon
    <3> QED BY <3>2
  <2> QED BY <1>1, <2>1, EmptyLen, Zenon
<1>5. ~NothingAsked
  BY <1>1, <1>2 DEF NothingAsked
<1>6. committed \in Int /\ nbars <= MaxBars /\ bar \in Nat
  BY SessionAssumption DEF ProtocolInv, SessionTypes
<1> QED BY <1>1, <1>3, <1>4, <1>5, <1>6 DEF Talking

LEMMA AnswerKeeps ==
    ASSUME ProtocolInv, SessionTypes', wst = "run", down # <<>>, Head(down).kind \in Requests,
           NEW a \in Messages, a.kind = "INTENT_BATCH", wst' = wst, down' = Tail(down),
           wt' \in Seq(Messages), LastKind(wt') = "INTENT_BATCH",
           up' \in Seq(Messages), up' # <<>>, up'[Len(up')] = a,
           PipesOK(pt, wt', <<>>, up', "run"),
           wbar' = bar, committed' = committed, UNCHANGED <<nbars, parent>>,
           tape' \in Seq(Intents), Len(tape') = Len(tape) + Len(a.batch),
           \A n \in 1 .. Len(tape) : tape'[n] = tape[n],
           \A n \in 1 .. Len(a.batch) :
              /\ a.batch[n] = tape'[Len(tape) + n]
              /\ a.batch[n].bar = bar /\ a.batch[n].iter = iter /\ a.batch[n].after = bar
    PROVE  ProtocolInv'
<1>1. /\ up = <<>> /\ Tail(down) = <<>> /\ Head(down) \in Messages /\ bar < nbars /\ committed = bar
      /\ ppc \notin Talking \cup {"spawn", "hello"} /\ (ppc = "abort" => closed)
      /\ committed \in Int /\ bar \in Nat
  BY Requested, Zenon
<1>2. UNCHANGED <<nbars, ppc, pt, bar, iter, pending, applied, closed>> /\ down' = <<>>
  BY <1>1, Zenon DEF parent
<1>3. Boxes'
  BY <1>2, SMTT(30) DEF ProtocolInv, Boxes
<1>4. PipesOK(pt, wt, down, up, wst)'
  BY <1>2, Zenon
<1>5. Silence'
  BY Zenon DEF Silence
<1>6. WorkerOK'
  <2>1. ~(down' # <<>> /\ down'[1].kind = "BAR_COMMIT") /\ \A n \in 1 .. Len(down') : FALSE
    <3>1. Len(<<>>) = 0 /\ \A n \in 1 .. 0 : FALSE
      BY SMTT(30)
    <3> QED BY <1>2, <3>1, Zenon
  <2>2. committed' + 0 = bar'
    BY <1>1, <1>2, SMTT(30)
  <2>3. wbar' = committed' /\ committed' < nbars' /\ bar' = bar /\ bar # None
    BY <1>1, <1>2, SMTT(30) DEF None
  <2> QED BY <2>1, <2>2, <2>3 DEF WorkerOK
<1>7. ParentOK'
  BY <1>1, <1>2, Zenon DEF ProtocolInv, ParentOK, Talking
<1>8. Order'
  <2>1. IntentsInOrder /\ Len(applied) \in Nat /\ Len(tape) \in Nat
        /\ (ppc \in {"intents", "result"} => Len(tape) = Len(applied))
    BY <1>1, SMTT(30) DEF ProtocolInv, Order, Boxes
  <2>2. Len(a.batch) \in Nat
    <3>1. a.batch \in Seq(Intents)
      BY DEF Messages
    <3> QED BY <3>1
  <2>3. IntentsInOrder'
    <3>1. Len(applied') <= Len(tape')
      BY <1>2, <2>1, <2>2 DEF IntentsInOrder
    <3>2. ASSUME NEW n \in 1 .. Len(applied) PROVE tape'[n] = tape[n]
      <4>1. n \in 1 .. Len(tape)
        BY <2>1 DEF IntentsInOrder
      <4> QED BY <4>1, Zenon
    <3> QED BY <1>2, <2>1, <3>1, <3>2, Zenon DEF IntentsInOrder
  <2>4. ppc \in {"intents", "result"} => Rest(a.batch)'
    BY <1>2, <2>1, Zenon DEF Rest
  <2> QED BY <1>1, <1>2, <2>3, <2>4, Zenon DEF Order, Talking
<1> QED BY <1>3, <1>4, <1>5, <1>6, <1>7, <1>8, Zenon DEF ProtocolInv

(* Nothing, or one message, is before the answer.                          *)
LEMMA Beyond ==
    ASSUME NEW w \in Seq(Messages), NEW m \in Messages
    PROVE  /\ SubSeq(Append(w, m), Len(w) + 2, Len(Append(w, m))) = <<>>
           /\ \A r \in Messages : SubSeq(Append(Append(w, m), r), Len(w) + 2,
                                         Len(Append(Append(w, m), r))) = <<r>>
<1> DEFINE t == Append(w, m)
<1>1. t \in Seq(Messages) /\ Len(t) = Len(w) + 1 /\ Len(w) \in Nat
  BY Appended
<1> HIDE DEF t
<1>2. SubSeq(t, Len(w) + 2, Len(t)) = <<>>
  <2>1. /\ SubSeq(t, Len(w) + 2, Len(t)) \in Seq(Messages)
        /\ Len(SubSeq(t, Len(w) + 2, Len(t))) = 0
    BY <1>1
  <2> QED BY <2>1, EmptyLen, Zenon
<1>3. ASSUME NEW r \in Messages PROVE SubSeq(Append(t, r), Len(w) + 2, Len(Append(t, r))) = <<r>>
  <2> DEFINE q == Append(t, r)
             L == Len(w) + 2
  <2>1. q \in Seq(Messages) /\ Len(q) = L /\ q[L] = r /\ L \in Nat \ {0}
    BY <1>1, Appended
  <2> HIDE DEF q, L
  <2>2. SubSeq(q, L, L) = [n \in 1 .. 1 |-> q[L + n - 1]]
    BY <2>1
  <2>3. <<r>> = [n \in 1 .. 1 |-> r]
    OBVIOUS
  <2>4. \A n \in 1 .. 1 : q[L + n - 1] = r
    BY <2>1
  <2>5. SubSeq(q, L, Len(q)) = <<r>>
    BY <2>1, <2>2, <2>3, <2>4
  <2> QED BY <2>5, Zenon DEF q, L
<1> QED BY <1>2, <1>3, Zenon DEF t

(* The transcripts and pipes after an answer to the request d[1].          *)
LEMMA AnswerPipes ==
    ASSUME NEW p \in Seq(Messages), NEW w \in Seq(Messages), NEW d \in Seq(Messages),
           PipesOK(p, w, d, <<>>, "run"), d # <<>>, Tail(d) = <<>>, Accepts(w, Head(d)),
           NEW a \in Messages, a.kind = "INTENT_BATCH"
    PROVE  LET t == Append(w, Head(d))
           IN  /\ Accepts(t, a) => PipesOK(p, Append(t, a), <<>>, Append(<<>>, a), "run")
               /\ \A r \in Messages :
                    r.kind = "RECALC_RESULT" /\ Accepts(t, r) /\ Accepts(Append(t, r), a)
                    => PipesOK(p, Append(Append(t, r), a), <<>>, Append(Append(<<>>, r), a), "run")
<1> DEFINE t == Append(w, Head(d))
<1>1. Head(d) \in Messages /\ <<>> \in Seq(Messages) /\ "run" \in {"run", "exited"}
  BY Headed
<1>2. t \in Seq(Messages)
  BY <1>1, Appended
<1>3. PipesOK(p, t, <<>>, <<>>, "run")
  <2>1. PipesOK(p, t, Tail(d), <<>>, "run")
    BY <1>1, TakeKeeps, Zenon
  <2> QED BY <2>1, Zenon
<1> HIDE DEF t
<1>4. a.kind \in FromWorker
  BY DEF FromWorker
<1>5. Accepts(t, a) => PipesOK(p, Append(t, a), <<>>, Append(<<>>, a), "run")
  BY <1>1, <1>2, <1>3, <1>4, ReplyKeeps, Zenon
<1>6. ASSUME NEW r \in Messages, r.kind = "RECALC_RESULT", Accepts(t, r), Accepts(Append(t, r), a)
      PROVE  PipesOK(p, Append(Append(t, r), a), <<>>, Append(Append(<<>>, r), a), "run")
  <2>1. r.kind \in FromWorker
    BY <1>6 DEF FromWorker
  <2>2. PipesOK(p, Append(t, r), <<>>, Append(<<>>, r), "run")
    BY <1>1, <1>2, <1>3, <1>6, <2>1, ReplyKeeps, Zenon
  <2>3. Append(t, r) \in Seq(Messages) /\ Append(<<>>, r) \in Seq(Messages)
    BY <1>1, <1>2, Appended, Zenon
  <2> QED BY <1>4, <1>6, <2>2, <2>3, ReplyKeeps, Zenon
<1> QED BY <1>5, <1>6, Zenon DEF t

LEMMA ReceiveBegin ==
    ASSUME ProtocolInv, WorkerReceive, Head(down).kind = "BAR_BEGIN"
    PROVE  ProtocolInv'
<1> DEFINE m == Head(down)
           t == Append(wt, m)
           e == [bar |-> m.bar, iter |-> m.iter, after |-> committed]
<1>1. /\ wst = "run" /\ down # <<>> /\ Accepts(wt, m) /\ down' = Tail(down)
      /\ wbar' = m.bar /\ ProcessBar(m, t) /\ UNCHANGED <<wst, committed, nbars, parent, proc>>
  BY Zenon DEF WorkerReceive
<1>2. /\ up = <<>> /\ Tail(down) = <<>> /\ m \in Messages /\ m.kind \in Requests
      /\ m.bar = bar /\ m.iter = iter /\ bar < nbars /\ committed = bar
      /\ committed \in Int /\ nbars <= MaxBars /\ bar \in Nat
  BY <1>1, Requested, Zenon DEF Requests
<1>3. /\ pt \in Seq(Messages) /\ wt \in Seq(Messages) /\ down \in Seq(Messages)
      /\ PipesOK(pt, wt, down, <<>>, "run") /\ tape \in Seq(Intents) /\ sent = Len(tape)
  BY <1>1, <1>2 DEF ProtocolInv, Boxes, SessionTypes
<1> HIDE DEF m
<1>4. t \in Seq(Messages) /\ LastKind(t) = "BAR_BEGIN"
  BY <1>2, <1>3, Appended, LastKindNew, Zenon DEF m
<1>5. SubSeq(t, Len(wt) + 2, Len(t)) = <<>>
  BY <1>2, <1>3, Beyond, Zenon
<1>6. MayFollow(t, "INTENT_BATCH")
  BY <1>4, FollowUps, Zenon
<1> HIDE DEF t
<1>7. PICK a : Answers(t, e, a)
  BY <1>1, <1>2, <1>3, <1>4, <1>6, ProcessAnswers, Zenon
<1>8. /\ a \in Messages /\ a.kind = "INTENT_BATCH" /\ Accepts(t, a) /\ wt' = Append(t, a)
      /\ up' = up \o SubSeq(t, Len(wt) + 2, Len(t)) \o <<a>>
      /\ tape' \in Seq(Intents) /\ sent' = Len(tape') /\ Len(tape') = Len(tape) + Len(a.batch)
      /\ \A n \in 1 .. Len(tape) : tape'[n] = tape[n]
      /\ \A n \in 1 .. Len(a.batch) : a.batch[n] = tape'[Len(tape) + n] /\ a.batch[n] = e
  BY <1>7, Zenon DEF Answers
<1>9. e.bar = bar /\ e.iter = iter /\ e.after = bar
  BY <1>2
<1> HIDE DEF e
<1>10. up' = Append(<<>>, a)
  <2>1. <<>> \o <<>> \o <<a>> = Append(<<>>, a)
    OBVIOUS
  <2> QED BY <1>2, <1>5, <1>8, <2>1, Zenon
<1>11. /\ wt' \in Seq(Messages) /\ LastKind(wt') = "INTENT_BATCH"
       /\ up' \in Seq(Messages) /\ up' # <<>> /\ up'[Len(up')] = a
  <2>1. wt' \in Seq(Messages) /\ LastKind(wt') = "INTENT_BATCH"
    BY <1>4, <1>8, Appended, LastKindNew, Zenon
  <2>2. /\ Append(<<>>, a) \in Seq(Messages) /\ Append(<<>>, a) # <<>>
        /\ Append(<<>>, a)[Len(Append(<<>>, a))] = a
    BY <1>8, SMTT(30)
  <2> QED BY <1>10, <2>1, <2>2, Zenon
<1>12. PipesOK(pt, wt', <<>>, up', "run")
  <2>1. PipesOK(pt, Append(t, a), <<>>, Append(<<>>, a), "run")
    BY <1>1, <1>2, <1>3, <1>8, AnswerPipes, Zenon DEF t, m
  <2> QED BY <1>8, <1>10, <2>1, Zenon
<1>13. SessionTypes'
  <2>1. wbar' \in None .. MaxBars - 1
    BY <1>1, <1>2, SessionAssumption DEF None, ProtocolInv, SessionTypes
  <2> QED BY <1>1, <1>8, <2>1, Zenon DEF ProtocolInv, SessionTypes, parent
<1>14. \A n \in 1 .. Len(a.batch) :
          /\ a.batch[n] = tape'[Len(tape) + n]
          /\ a.batch[n].bar = bar /\ a.batch[n].iter = iter /\ a.batch[n].after = bar
  BY <1>8, <1>9, Zenon
<1>15. /\ Head(down).kind \in Requests /\ wbar' = bar /\ committed' = committed
       /\ UNCHANGED <<nbars, parent>> /\ wst' = wst
  BY <1>1, <1>2 DEF m
<1> QED BY <1>1, <1>8, <1>11, <1>12, <1>13, <1>14, <1>15, AnswerKeeps, Zenon

LEMMA ReceiveRecalc ==
    ASSUME ProtocolInv, WorkerReceive, Head(down).kind = "RECALC_REQUEST"
    PROVE  ProtocolInv'
<1> DEFINE m == Head(down)
           s == Append(wt, m)
           r == Message(s, "RECALC_RESULT", m.bar, m.iter, <<>>)
           t == Append(s, r)
           e == [bar |-> m.bar, iter |-> m.iter, after |-> committed]
<1>1. /\ wst = "run" /\ down # <<>> /\ Accepts(wt, m) /\ down' = Tail(down) /\ wbar # None
      /\ ProcessBar(m, t) /\ UNCHANGED <<wst, wbar, committed, nbars, parent, proc>>
  BY Zenon DEF WorkerReceive, WorkerRecalc
<1>2. /\ up = <<>> /\ Tail(down) = <<>> /\ m \in Messages /\ m.kind \in Requests
      /\ m.bar = bar /\ m.iter = iter /\ bar < nbars /\ committed = bar
      /\ committed \in Int /\ nbars <= MaxBars /\ bar \in Nat
  BY <1>1, Requested DEF Requests
<1>3. /\ pt \in Seq(Messages) /\ wt \in Seq(Messages) /\ down \in Seq(Messages)
      /\ PipesOK(pt, wt, down, <<>>, "run") /\ tape \in Seq(Intents) /\ sent = Len(tape)
      /\ wbar = committed
  BY <1>1, <1>2 DEF ProtocolInv, Boxes, SessionTypes, WorkerOK
<1> HIDE DEF m
<1>4. s \in Seq(Messages) /\ LastKind(s) = "RECALC_REQUEST"
  BY <1>2, <1>3, Appended, LastKindNew, Zenon DEF m
<1> HIDE DEF s
<1>5. r \in Messages /\ r.kind = "RECALC_RESULT" /\ Accepts(s, r)
  <2>1. r = Message(s, "RECALC_RESULT", m.bar, m.iter, <<>>) /\ "RECALC_RESULT" \in Kinds
        /\ m.bar \in Int /\ m.iter \in Int /\ MayFollow(s, "RECALC_RESULT")
    BY <1>2, <1>4, FollowUps, Zenon DEF Kinds, Messages
  <2> HIDE DEF r
  <2> QED BY <1>4, <2>1, MessagePlain
<1> HIDE DEF r
<1>6. t \in Seq(Messages) /\ LastKind(t) = "RECALC_RESULT"
  BY <1>4, <1>5, Appended, LastKindNew
<1>7. SubSeq(t, Len(wt) + 2, Len(t)) = <<r>>
  BY <1>2, <1>3, <1>5, Beyond, Zenon DEF s
<1>8. MayFollow(t, "INTENT_BATCH")
  BY <1>6, FollowUps, Zenon
<1> HIDE DEF t
<1>9. PICK a : Answers(t, e, a)
  <2>1. ProcessBar(m, t)
    BY <1>1, Zenon DEF t, s, r
  <2> QED BY <1>2, <1>3, <1>6, <1>8, <2>1, ProcessAnswers, Zenon
<1>10. /\ a \in Messages /\ a.kind = "INTENT_BATCH" /\ Accepts(t, a) /\ wt' = Append(t, a)
       /\ up' = up \o SubSeq(t, Len(wt) + 2, Len(t)) \o <<a>>
       /\ tape' \in Seq(Intents) /\ sent' = Len(tape') /\ Len(tape') = Len(tape) + Len(a.batch)
       /\ \A n \in 1 .. Len(tape) : tape'[n] = tape[n]
       /\ \A n \in 1 .. Len(a.batch) : a.batch[n] = tape'[Len(tape) + n] /\ a.batch[n] = e
  BY <1>9, Zenon DEF Answers
<1>11. e.bar = bar /\ e.iter = iter /\ e.after = bar
  BY <1>2
<1> HIDE DEF e
<1>12. up' = Append(Append(<<>>, r), a)
  <2>1. <<>> \o <<r>> \o <<a>> = Append(Append(<<>>, r), a)
    OBVIOUS
  <2> QED BY <1>2, <1>7, <1>10, <2>1, Zenon
<1>13. /\ wt' \in Seq(Messages) /\ LastKind(wt') = "INTENT_BATCH"
       /\ up' \in Seq(Messages) /\ up' # <<>> /\ up'[Len(up')] = a
  <2>1. wt' \in Seq(Messages) /\ LastKind(wt') = "INTENT_BATCH"
    BY <1>6, <1>10, Appended, LastKindNew, Zenon
  <2> DEFINE q == Append(<<>>, r)
  <2>2. q \in Seq(Messages)
    BY <1>5
  <2> HIDE DEF q
  <2>3. Append(q, a) \in Seq(Messages) /\ Append(q, a) # <<>> /\ Append(q, a)[Len(Append(q, a))] = a
    <3>1. /\ Append(q, a) \in Seq(Messages) /\ Append(q, a) # <<>>
          /\ Len(Append(q, a)) = Len(q) + 1 /\ Append(q, a)[Len(q) + 1] = a
      BY <1>10, <2>2, Appended, ZenonT(40)
    <3> QED BY <3>1, Zenon
  <2> QED BY <1>12, <2>1, <2>3, Zenon DEF q
<1>14. PipesOK(pt, wt', <<>>, up', "run")
  <2>1. PipesOK(pt, Append(t, a), <<>>, Append(Append(<<>>, r), a), "run")
    BY <1>1, <1>2, <1>3, <1>5, <1>10, AnswerPipes, Zenon DEF t, s, m
  <2> QED BY <1>10, <1>12, <2>1, Zenon
<1>15. SessionTypes'
  BY <1>1, <1>10, Zenon DEF ProtocolInv, SessionTypes, parent
<1>16. \A n \in 1 .. Len(a.batch) :
          /\ a.batch[n] = tape'[Len(tape) + n]
          /\ a.batch[n].bar = bar /\ a.batch[n].iter = iter /\ a.batch[n].after = bar
  BY <1>10, <1>11, Zenon
<1>17. /\ Head(down).kind \in Requests /\ wbar' = bar /\ committed' = committed
       /\ UNCHANGED <<nbars, parent>> /\ wst' = wst
  BY <1>1, <1>2, <1>3, Zenon DEF m
<1> QED BY <1>1, <1>10, <1>13, <1>14, <1>15, <1>16, <1>17, AnswerKeeps, Zenon

LEMMA WorkerReceiveKeeps == ProtocolInv /\ WorkerReceive => ProtocolInv'
<1> SUFFICES ASSUME ProtocolInv, WorkerReceive PROVE ProtocolInv'
  OBVIOUS
<1>1. wst = "run" /\ Head(down).kind \in {"LOAD_ARTIFACT", "INIT_RUN", "BROKER_EVENT_BATCH",
                           "BAR_BEGIN", "RECALC_REQUEST", "BAR_COMMIT", "FINALIZE", "ABORT"}
  BY Zenon DEF WorkerReceive
<1>2. CASE Head(down).kind \in {"LOAD_ARTIFACT", "INIT_RUN", "BROKER_EVENT_BATCH"}
  <2>1. SessionTypes'
    BY <1>2 DEF WorkerReceive, ProtocolInv, SessionTypes, parent
  <2> QED BY <1>2, <2>1, ReceivePlain
<1>3. CASE Head(down).kind \in {"BAR_COMMIT", "FINALIZE", "ABORT"}
  <2>1. CommitCurrent
    BY <1>3, Zenon DEF WorkerReceive
  <2>2. committed' \in 0 .. MaxBars /\ wbar' \in None .. MaxBars - 1
    <3>1. /\ wbar # None => wbar = committed /\ committed < nbars
          /\ nbars \in 0 .. MaxBars /\ wbar \in None .. MaxBars - 1 /\ committed \in 0 .. MaxBars
      BY <1>1, Zenon DEF ProtocolInv, WorkerOK, SessionTypes
    <3> QED BY <2>1, <3>1, SessionAssumption DEF CommitCurrent, None
  <2>3. SessionTypes'
    BY <1>3, <2>2 DEF WorkerReceive, ProtocolInv, SessionTypes, parent
  <2> QED BY <1>3, <2>3, ReceiveCommit
<1> QED BY <1>1, <1>2, <1>3, ReceiveBegin, ReceiveRecalc

(* Every step of the parent, the worker or the operating system keeps the  *)
(* protocol.                                                               *)
LEMMA ProtocolStep == ProtocolInv /\ [Next]_vars => ProtocolInv'
<1> SUFFICES ASSUME ProtocolInv, [Next]_vars PROVE ProtocolInv'
  OBVIOUS
<1>1. CASE ParentStep
  <2>1. CASE CleanupStep \/ ReadTimeout \/ KillAgain \/ WaitExit
    BY <2>1, WayOutKeeps, Zenon DEF CleanupStep, WayOut
  <2>2. CASE Spawn \/ ReadHello \/ BarBegin \/ ReadResult \/ ReadIntents
    BY <2>2, SpawnKeeps, ReadHelloKeeps, BarBeginKeeps, ReadResultKeeps, ReadIntentsKeeps, Zenon
  <2>3. CASE ApplyIntents \/ Recalc \/ BarCommit \/ EngineRaises
    BY <2>3, ApplyIntentsKeeps, RecalcKeeps, BarCommitKeeps, EngineRaisesKeeps, Zenon
  <2>4. CASE Finalize \/ AbortSession
    BY <2>4, FinalizeKeeps, AbortSessionKeeps, Zenon
  <2> QED BY <1>1, <2>1, <2>2, <2>3, <2>4, Zenon DEF ParentStep
<1>2. CASE AtExit
  BY <1>2, WayOutKeeps, Zenon DEF WayOut
<1>3. CASE WorkerStep
  BY <1>3, WorkerBootKeeps, WorkerReceiveKeeps, WorkerFailsKeeps, WorkerEndsKeeps, Zenon
     DEF WorkerStep
<1>4. CASE UNCHANGED vars
  <2>1. Mute /\ ppc' = ppc /\ closed' = closed /\ wst' = wst
    BY <1>4 DEF vars, parent, worker, Mute
  <2>2. SessionTypes'
    BY <1>4, Zenon DEF ProtocolInv, SessionTypes, vars, parent, worker
  <2> QED BY <2>1, <2>2, Stays
<1> QED BY <1>1, <1>2, <1>3, <1>4, Zenon DEF Next

\* InteractiveWorkerSession and _interactive_loop: the messages in the pipes, the two
\* transcripts and where parent and worker are fit together in every state of a
\* session.
THEOREM SessionProtocol == Spec => []ProtocolInv
BY ProtocolStarts, ProtocolStep, PTL DEF Spec

\* The two transcripts and the intent tape (isolated_worker.py, worker_protocol.py):
\* for any number of bars and recalculations parent and worker agree on every message
\* they both have, each accepts the next message of the other, and every intent is
\* applied once, in order and in the callback it was computed for.
THEOREM SessionProtocolAgrees == Spec => []ProtocolAgrees
<1>1. ProtocolInv => ProtocolAgrees
  <2> SUFFICES ASSUME ProtocolInv PROVE ProtocolAgrees
    OBVIOUS
  <2>1. TypeOK
    BY ProtocolTypes DEF ProtocolInv
  <2>2. IntentsInOrder
    BY DEF ProtocolInv, Order
  <2>3. \A n \in 1 .. Len(pt) : n <= Len(wt) => pt[n] = wt[n] \/ pt[n].kind = "ABORT"
    BY DEF ProtocolInv, PipesOK
  <2>4. ASSUME LastKind(pt) # "ABORT", wst = "run", down # <<>> PROVE Accepts(wt, Head(down))
    <3>1. up = <<>> /\ pt \in Seq(Messages) /\ wt \in Seq(Messages) /\ down \in Seq(Messages)
      BY <2>4, Receives DEF ProtocolInv, Boxes
    <3>2. PipesOK(pt, wt, down, <<>>, "run") /\ "run" \in {"run", "exited"}
      BY <2>4, <3>1 DEF ProtocolInv
    <3> QED BY <2>4, <3>1, <3>2, TakeKeeps, Zenon
  <2>5. ASSUME LastKind(pt) # "ABORT", ppc \in {"hello", "intents", "result"}, up # <<>>
        PROVE  Accepts(pt, Head(up)) \/ Head(up).kind = "error"
    BY <2>5, ReadsWhatItAwaits
  <2>6. TranscriptsAgree
    BY <2>3, <2>4, <2>5, Zenon DEF TranscriptsAgree
  <2> QED BY <2>1, <2>2, <2>6, Zenon DEF ProtocolAgrees
<1> QED BY <1>1, SessionProtocol, PTL
=============================================================================
