---------------------------- MODULE WorkerSession ----------------------------
(***************************************************************************)
(* One InteractiveWorkerSession: run_isolated_artifact drives a backtest   *)
(* whose strategy code runs in a sandboxed worker process.  Parent and     *)
(* worker exchange sealed messages over two pipes; each keeps a transcript *)
(* and accepts a message only if it continues that transcript.  The worker *)
(* runs in a systemd unit that outlives the process the parent started, so *)
(* that every way out of the session has to stop the unit.                 *)
(*                                                                         *)
(* Messages are abstracted to their kind, bar and recalculation, and the   *)
(* fields that tie them to a transcript: their sequence number and the     *)
(* message they follow.  Hashes and identities are taken to match.         *)
(***************************************************************************)
EXTENDS Integers, Sequences

CONSTANTS
  MaxBars,     \* bound: bars of the run
  MaxRecalc    \* bound: recalculations of a bar

ASSUME SessionAssumption == MaxBars \in Nat /\ MaxRecalc \in Nat

VARIABLES
  nbars,     \* bars of this run
  ppc,       \* where the parent is
  back,      \* where it goes on after a cleanup
  pt,        \* its transcript
  bar,       \* bar the engine is at
  iter,      \* recalculation of that bar
  pending,   \* pending_batch: the intents of the last INTENT_BATCH
  applied,   \* accumulated_events, each with the callback that applied it
  commit,    \* _last_commit: was a bar committed
  outcome,   \* how the session ended
  closed,    \* stdin of the worker is closed
  retained,  \* the unit is in _PENDING_WORKER_UNITS
  proc,      \* the process the parent started (sudo systemd-run --wait)
  wst,       \* the worker in its unit
  wt,        \* its transcript
  wbar,      \* current_key: the bar it has begun
  committed, \* bars it has committed
  tape,      \* its intent tape
  sent,      \* sent_events
  down, up   \* the pipes

parent == <<ppc, back, pt, bar, iter, pending, applied, commit, outcome, closed, retained>>
worker == <<wt, wbar, committed, tape, sent>>
vars   == <<nbars, parent, proc, wst, worker, down, up>>

None == -1

Init ==
  /\ nbars \in 0 .. MaxBars
  /\ ppc = "spawn" /\ back = "over" /\ pt = <<>>
  /\ bar = 0 /\ iter = 0 /\ pending = <<>> /\ applied = <<>>
  /\ commit = FALSE /\ outcome = "none" /\ closed = FALSE /\ retained = FALSE
  /\ proc = "none" /\ wst = "none"
  /\ wt = <<>> /\ wbar = None /\ committed = 0 /\ tape = <<>> /\ sent = 0
  /\ down = <<>> /\ up = <<>>

-----------------------------------------------------------------------------
(* Transcripts.                                                            *)

\* _ALLOWED_AFTER, without the checkpoint messages no code sends.
AllowedAfter(kind) ==
  CASE kind = "HELLO"              -> {"LOAD_ARTIFACT", "ABORT"}
    [] kind = "LOAD_ARTIFACT"      -> {"INIT_RUN", "ABORT"}
    [] kind = "INIT_RUN"           -> {"BAR_BEGIN", "FINALIZE", "ABORT"}
    [] kind = "BAR_BEGIN"          -> {"INTENT_BATCH", "ABORT"}
    [] kind = "INTENT_BATCH"       -> {"BROKER_EVENT_BATCH", "BAR_COMMIT", "ABORT"}
    [] kind = "BROKER_EVENT_BATCH" -> {"RECALC_REQUEST", "BAR_COMMIT", "ABORT"}
    [] kind = "RECALC_REQUEST"     -> {"RECALC_RESULT", "ABORT"}
    [] kind = "RECALC_RESULT"      -> {"INTENT_BATCH", "ABORT"}
    [] kind = "BAR_COMMIT"         -> {"BAR_BEGIN", "FINALIZE", "ABORT"}
    [] OTHER                       -> {}

LastKind(t) == IF t = <<>> THEN "none" ELSE t[Len(t)].kind

\* _check_transition.
MayFollow(t, kind) ==
  IF t = <<>> THEN kind = "HELLO" ELSE kind \in AllowedAfter(LastKind(t))

Message(t, kind, b, i, batch) ==
  [kind |-> kind, bar |-> b, iter |-> i, batch |-> batch,
   seq |-> Len(t), cause |-> LastKind(t)]

\* accept: the message is the next one of this transcript.
Accepts(t, m) ==
  MayFollow(t, m.kind) /\ m.seq = Len(t) /\ m.cause = LastKind(t)

-----------------------------------------------------------------------------
(* The way out of the session.                                             *)

\* Leave the body of the session with an exception: __exit__ aborts.
Fail == ppc' = "abort" /\ back' = "over"

\* _cleanup_worker_process, to go on at r.
Cleanup(r) == ppc' = "kill" /\ back' = r

\* A write fails when nobody is left to read, or after a cleanup.
CanWrite == ~closed /\ ~(wst = "exited" /\ proc = "exited")

\* __exit__ with an exception: the ABORT is recorded and sent if it can be, and
\* the worker is killed in any case.
AbortSession ==
  /\ ppc = "abort"
  /\ LET m == Message(pt, "ABORT", None, None, <<>>)
     IN  /\ pt' = IF MayFollow(pt, "ABORT") THEN Append(pt, m) ELSE pt
         /\ down' = IF MayFollow(pt, "ABORT") /\ CanWrite THEN Append(down, m) ELSE down
  /\ outcome' = "error"
  /\ Cleanup("over")
  /\ UNCHANGED <<nbars, bar, iter, pending, applied, commit, closed, retained,
                 proc, wst, worker, up>>

\* proc.kill() of the process the parent started; it may be refused.
KillProcess ==
  /\ ppc = "kill"
  /\ ppc' = "stop"
  /\ proc' \in {proc, "exited"}
  /\ UNCHANGED <<nbars, back, pt, bar, iter, pending, applied, commit, outcome,
                 closed, retained, wst, worker, down, up>>

\* systemctl stop, then systemctl kill: each may work, fail or time out.
StopUnit(from, to) ==
  /\ ppc = from
  /\ ppc' = to
  /\ wst' \in {wst, "exited"}
  /\ UNCHANGED <<nbars, back, pt, bar, iter, pending, applied, commit, outcome,
                 closed, retained, proc, worker, down, up>>

\* A check that takes an unreadable state for a stopped unit.
ShowUnit_Trusting(from, to) ==
  /\ ppc = from
  /\ \/ ppc' = "reap" /\ retained' = FALSE
     \/ /\ wst # "exited"
        /\ ppc' = to
        /\ retained' = IF to = "reap" THEN TRUE ELSE retained
  /\ outcome' = IF retained' THEN "error" ELSE outcome
  /\ UNCHANGED <<nbars, back, pt, bar, iter, pending, applied, commit, closed,
                 proc, wst, worker, down, up>>

\* systemctl show.  Only a unit that is seen inactive is forgotten; one that is
\* not, or whose state cannot be read after the kill, is retained, and the cleanup
\* raises.
ShowUnit(from, to) ==
  /\ ppc = from
  /\ \/ /\ wst = "exited"
        /\ ppc' = "reap"
        /\ retained' = FALSE
     \/ /\ ppc' = to
        /\ retained' = IF to = "reap" THEN TRUE ELSE retained
  /\ outcome' = IF retained' THEN "error" ELSE outcome
  /\ UNCHANGED <<nbars, back, pt, bar, iter, pending, applied, commit, closed,
                 proc, wst, worker, down, up>>

\* _reap_worker_process_bounded: wait, kill again, and close the pipes, also
\* when the process could not be reaped.
Reap ==
  /\ ppc = "reap" /\ back # "exit"
  /\ proc' \in {proc, "exited"}
  /\ outcome' = IF proc' = "exited" THEN outcome ELSE "error"
  /\ closed' = TRUE
  /\ ppc' = back
  /\ UNCHANGED <<nbars, back, pt, bar, iter, pending, applied, commit, retained,
                 wst, worker, down, up>>

\* The parent exits: _retry_pending_worker_unit_cleanup tries once more to stop
\* the unit.
AtExit ==
  /\ ppc = "over" /\ retained /\ back # "exit"
  /\ ppc' = "stop" /\ back' = "exit"
  /\ UNCHANGED <<nbars, pt, bar, iter, pending, applied, commit, outcome, closed,
                 retained, proc, wst, worker, down, up>>

AtExitEnds ==
  /\ ppc = "reap" /\ back = "exit"
  /\ ppc' = "over"
  /\ UNCHANGED <<nbars, back, pt, bar, iter, pending, applied, commit, outcome, closed,
                 retained, proc, wst, worker, down, up>>

-----------------------------------------------------------------------------
(* __init__.                                                               *)

Spawn ==
  /\ ppc = "spawn"
  /\ \/ /\ ppc' = "over" /\ outcome' = "error"          \* Popen failed
        /\ UNCHANGED <<back, proc, wst>>
     \/ /\ proc' = "running" /\ wst' = "boot"
        /\ ppc' = "hello"
        /\ UNCHANGED <<back, outcome>>
     \/ /\ proc' = "running" /\ wst' = "boot"            \* attach_worker_tree failed
        /\ outcome' = "error"
        /\ Cleanup("over")
  /\ UNCHANGED <<nbars, pt, bar, iter, pending, applied, commit, closed, retained,
                 worker, down, up>>

\* _read_message.  Reading(S): the line is a message of a kind in S that continues
\* the transcript.  Anything else raises: the end of the stream, an error line, a
\* message that does not fit.  A read that gets no line in time kills first.
Reading(S) == up # <<>> /\ Head(up).kind \in S /\ Accepts(pt, Head(up))
BadRead(S) == \/ up # <<>> /\ ~(Head(up).kind \in S /\ Accepts(pt, Head(up)))
              \/ up = <<>> /\ wst = "exited" /\ proc = "exited"

\* HELLO arrives and LOAD_ARTIFACT and INIT_RUN go out.
ReadHello ==
  /\ ppc = "hello"
  /\ \/ /\ Reading({"HELLO"})
        /\ LET t1 == Append(pt, Head(up))
               load == Message(t1, "LOAD_ARTIFACT", None, None, <<>>)
               init == Message(Append(t1, load), "INIT_RUN", None, None, <<>>)
           IN  \/ /\ CanWrite
                  /\ pt' = t1 \o <<load, init>>
                  /\ down' = down \o <<load, init>>
                  /\ ppc' = "engine"
                  /\ UNCHANGED <<back, outcome>>
               \/ /\ ~CanWrite
                  /\ pt' = Append(t1, load)
                  /\ outcome' = "error"
                  /\ Cleanup("over")
                  /\ UNCHANGED down
        /\ up' = Tail(up)
     \/ /\ BadRead({"HELLO"})
        /\ outcome' = "error"
        /\ Cleanup("over")
        /\ UNCHANGED <<pt, down, up>>
  /\ UNCHANGED <<nbars, bar, iter, pending, applied, commit, closed, retained,
                 proc, wst, worker>>

\* A deadline on the first read only.
ReadTimeout_HelloOnly ==
  /\ ppc = "hello"
  /\ up = <<>> /\ ~(wst = "exited" /\ proc = "exited")
  /\ outcome' = "error"
  /\ Cleanup("kill_again")
  /\ UNCHANGED <<nbars, pt, bar, iter, pending, applied, commit, closed, retained,
                 proc, wst, worker, down, up>>

\* No line in time.  The worker is killed, and once more by the handler of the
\* exception: the constructor's or __exit__.
ReadTimeout ==
  /\ ppc \in {"hello", "intents", "result"}
  /\ up = <<>> /\ ~(wst = "exited" /\ proc = "exited")
  /\ outcome' = "error"
  /\ Cleanup(IF ppc = "hello" THEN "kill_again" ELSE "abort")
  /\ UNCHANGED <<nbars, pt, bar, iter, pending, applied, commit, closed, retained,
                 proc, wst, worker, down, up>>

KillAgain ==
  /\ ppc = "kill_again"
  /\ Cleanup("over")
  /\ UNCHANGED <<nbars, pt, bar, iter, pending, applied, commit, outcome, closed,
                 retained, proc, wst, worker, down, up>>

-----------------------------------------------------------------------------
(* The body: the engine calls handle_protocol_event and _process_bar.      *)

\* Append the messages with these kinds to the transcript and send them, then go
\* on at next; a broken pipe raises after the message it hit was recorded.
Send(kinds, b, i, next) ==
  LET m1 == Message(pt, kinds[1], b, i, <<>>)
      ms == IF Len(kinds) = 1 THEN <<m1>>
            ELSE <<m1, Message(Append(pt, m1), kinds[2], b, i, <<>>)>>
  IN  \/ /\ CanWrite
         /\ pt' = pt \o ms
         /\ down' = down \o ms
         /\ ppc' = next
         /\ UNCHANGED back
      \/ /\ ~CanWrite
         /\ pt' \in {Append(pt, m1), pt \o ms}
         /\ Fail
         /\ UNCHANGED down

\* evaluate_bar: pending_batch is cleared before the worker is asked.
BarBegin ==
  /\ ppc = "engine" /\ bar < nbars
  /\ pending' = <<>>
  /\ Send(<<"BAR_BEGIN">>, bar, 0, "intents")
  /\ UNCHANGED <<nbars, bar, iter, applied, commit, outcome, closed, retained,
                 proc, wst, worker, up>>

ReadResult ==
  /\ ppc = "result"
  /\ \/ /\ Reading({"RECALC_RESULT"})
        /\ pt' = Append(pt, Head(up))
        /\ up' = Tail(up)
        /\ ppc' = "intents"
        /\ UNCHANGED back
     \/ BadRead({"RECALC_RESULT"}) /\ Fail /\ UNCHANGED <<pt, up>>
  /\ UNCHANGED <<nbars, bar, iter, pending, applied, commit, outcome, closed, retained,
                 proc, wst, worker, down>>

ReadIntents ==
  /\ ppc = "intents"
  /\ \/ /\ Reading({"INTENT_BATCH"})
        /\ pt' = Append(pt, Head(up))
        /\ up' = Tail(up)
        /\ pending' = Head(up).batch
        /\ ppc' = "apply"
        /\ UNCHANGED back
     \/ BadRead({"INTENT_BATCH"}) /\ Fail /\ UNCHANGED <<pt, up, pending>>
  /\ UNCHANGED <<nbars, bar, iter, applied, commit, outcome, closed, retained,
                 proc, wst, worker, down>>

\* _process_bar: the engine's strategy applies the batch.
ApplyIntents ==
  /\ ppc = "apply"
  /\ applied' = applied \o [n \in 1 .. Len(pending) |->
                              [intent |-> pending[n], bar |-> bar, iter |-> iter]]
  /\ ppc' = "decide"
  /\ UNCHANGED <<nbars, back, pt, bar, iter, pending, commit, outcome, closed, retained,
                 proc, wst, worker, down, up>>

\* A recalculation asked for without the broker events that caused it.
Recalc_NoEvents ==
  /\ ppc = "decide" /\ iter < MaxRecalc
  /\ iter' = iter + 1
  /\ pending' = <<>>
  /\ Send(<<"RECALC_REQUEST">>, bar, iter + 1, "result")
  /\ UNCHANGED <<nbars, bar, applied, commit, outcome, closed, retained,
                 proc, wst, worker, up>>

\* A fill on this bar makes the engine ask for a recalculation (evaluate_recalc).
Recalc ==
  /\ ppc = "decide" /\ iter < MaxRecalc
  /\ iter' = iter + 1
  /\ pending' = <<>>
  /\ Send(<<"BROKER_EVENT_BATCH", "RECALC_REQUEST">>, bar, iter + 1, "result")
  /\ UNCHANGED <<nbars, bar, applied, commit, outcome, closed, retained,
                 proc, wst, worker, up>>

\* commit_bar: sent, not answered.
BarCommit ==
  /\ ppc = "decide"
  /\ Send(<<"BAR_COMMIT">>, bar, iter, "engine")
  /\ bar' = bar + 1 /\ iter' = 0
  /\ commit' = (commit \/ CanWrite)
  /\ UNCHANGED <<nbars, pending, applied, outcome, closed, retained,
                 proc, wst, worker, up>>

\* An exception of the engine itself.
EngineRaises ==
  /\ ppc \in {"engine", "decide"}
  /\ Fail
  /\ UNCHANGED <<nbars, pt, bar, iter, pending, applied, commit, outcome, closed,
                 retained, proc, wst, worker, down, up>>

\* finalize.  Without a committed bar it raises and leaves the worker alone.
Finalize ==
  /\ ppc = "engine" /\ bar = nbars
  /\ \/ /\ ~commit
        /\ ppc' = "over" /\ outcome' = "nothing_committed"
        /\ UNCHANGED <<pt, down, closed>>
     \/ /\ commit
        /\ LET m == Message(pt, "FINALIZE", None, None, <<>>)
           IN  /\ pt' = Append(pt, m)
               /\ down' = IF CanWrite THEN Append(down, m) ELSE down
        /\ outcome' = IF CanWrite THEN "ok" ELSE "error"
        /\ closed' = TRUE
        /\ ppc' = "wait"
  /\ UNCHANGED <<nbars, back, bar, iter, pending, applied, commit, retained,
                 proc, wst, worker, up>>

\* proc.wait(timeout=2), then _kill.
WaitExit ==
  /\ ppc = "wait"
  /\ \/ proc = "exited" /\ ppc' = "over" /\ UNCHANGED back
     \/ proc # "exited" /\ Cleanup("over")
  /\ UNCHANGED <<nbars, pt, bar, iter, pending, applied, commit, outcome, closed,
                 retained, proc, wst, worker, down, up>>

-----------------------------------------------------------------------------
(* The worker.                                                             *)

\* main up to the loop: HELLO, or an error line.
WorkerBoot ==
  /\ wst = "boot"
  /\ \/ LET hello == Message(wt, "HELLO", None, None, <<>>)
        IN  /\ wt' = <<hello>>
            /\ up' = Append(up, hello)
            /\ wst' = "run"
     \/ /\ up' = Append(up, Message(wt, "error", None, None, <<>>))
        /\ wst' = "exited"
        /\ UNCHANGED wt
  /\ UNCHANGED <<nbars, parent, proc, wbar, committed, tape, sent, down>>

\* commit_current: end of the bar that was begun, if any.
CommitCurrent ==
  /\ committed' = IF wbar = None THEN committed ELSE committed + 1
  /\ wbar' = None

\* _process_bar in the worker, and the INTENT_BATCH with what is new on the tape.
\* t1 is the transcript so far; what it has beyond the request goes out first.
ProcessBar(m, t1) ==
  \E new \in {<<>>, <<[bar |-> m.bar, iter |-> m.iter, after |-> committed]>>} :
    LET batch == SubSeq(tape \o new, sent + 1, Len(tape \o new))
        answer == Message(t1, "INTENT_BATCH", m.bar, m.iter, batch)
    IN  /\ tape' = tape \o new
        /\ sent' = Len(tape \o new)
        /\ wt' = Append(t1, answer)
        /\ up' = up \o SubSeq(t1, Len(wt) + 2, Len(t1)) \o <<answer>>

\* RECALC_REQUEST: the bar is processed again, on the same runtime bar.
WorkerRecalc(m, t1) ==
  /\ wbar # None
  /\ ProcessBar(m, Append(t1, Message(t1, "RECALC_RESULT", m.bar, m.iter, <<>>)))
  /\ UNCHANGED <<wbar, committed>>

\* One turn of _interactive_loop.
WorkerReceive ==
  /\ wst = "run" /\ down # <<>>
  /\ LET m == Head(down)
         t1 == Append(wt, m)
     IN  /\ Accepts(wt, m)
         /\ down' = Tail(down)
         /\ \/ /\ m.kind \in {"LOAD_ARTIFACT", "INIT_RUN", "BROKER_EVENT_BATCH"}
               /\ wt' = t1
               /\ UNCHANGED <<wst, wbar, committed, tape, sent, up>>
            \/ /\ m.kind = "BAR_BEGIN" /\ wbar \in {None, m.bar}
               /\ wbar' = m.bar
               /\ ProcessBar(m, t1)
               /\ UNCHANGED <<wst, committed>>
            \/ /\ m.kind = "RECALC_REQUEST"
               /\ WorkerRecalc(m, t1)
               /\ UNCHANGED wst
            \/ /\ m.kind = "BAR_COMMIT"
               /\ CommitCurrent
               /\ wt' = t1
               /\ UNCHANGED <<wst, tape, sent, up>>
            \/ /\ m.kind \in {"FINALIZE", "ABORT"}
               /\ CommitCurrent
               /\ wt' = t1 /\ wst' = "exited"
               /\ UNCHANGED <<tape, sent, up>>
  /\ UNCHANGED <<nbars, parent, proc>>

\* Any exception in a turn, a message it does not accept included: an error line,
\* and the worker exits.
WorkerFails ==
  /\ wst = "run" /\ down # <<>>
  /\ down' = Tail(down)
  /\ up' = Append(up, Message(wt, "error", None, None, <<>>))
  /\ wst' = "exited"
  /\ UNCHANGED <<nbars, parent, proc, worker>>

\* End of its input.
WorkerEof ==
  /\ wst = "run" /\ closed /\ down = <<>>
  /\ CommitCurrent
  /\ wst' = "exited"
  /\ UNCHANGED <<nbars, parent, proc, wt, tape, sent, down, up>>

\* A limit of its sandbox ends it without a word.
WorkerDies ==
  /\ wst \in {"boot", "run"}
  /\ wst' = "exited"
  /\ UNCHANGED <<nbars, parent, proc, worker, down, up>>

\* systemd-run --wait ends after its unit.
ProcessEnds ==
  /\ wst = "exited" /\ proc = "running"
  /\ proc' = "exited"
  /\ UNCHANGED <<nbars, parent, wst, worker, down, up>>

-----------------------------------------------------------------------------
CleanupStep ==
  \/ KillProcess
  \/ StopUnit("stop", "show") \/ ShowUnit("show", "unit_kill")
  \/ StopUnit("unit_kill", "verify") \/ ShowUnit("verify", "reap")
  \/ Reap \/ AtExitEnds

ParentStep ==
  \/ Spawn \/ ReadHello \/ ReadTimeout \/ KillAgain \/ BarBegin \/ ReadResult \/ ReadIntents
  \/ ApplyIntents \/ Recalc \/ BarCommit \/ EngineRaises \/ Finalize \/ WaitExit
  \/ AbortSession \/ CleanupStep

WorkerStep ==
  WorkerBoot \/ WorkerReceive \/ WorkerFails \/ WorkerEof \/ WorkerDies \/ ProcessEnds

Next == ParentStep \/ AtExit \/ WorkerStep

\* Only the parent is bound to go on: its reads, its waits and the commands it
\* runs have timeouts.  The worker may hang anywhere.
Spec == Init /\ [][Next]_vars /\ WF_vars(ParentStep)

-----------------------------------------------------------------------------
(* Properties.                                                             *)

Kinds == {"HELLO", "LOAD_ARTIFACT", "INIT_RUN", "BAR_BEGIN", "INTENT_BATCH",
          "BROKER_EVENT_BATCH", "RECALC_REQUEST", "RECALC_RESULT", "BAR_COMMIT",
          "FINALIZE", "ABORT", "error"}
Places == {"spawn", "hello", "engine", "intents", "result", "apply", "decide", "wait",
           "abort", "kill", "kill_again", "stop", "show", "unit_kill", "verify", "reap",
           "over"}

\* The variables stay within their types.
TypeOK ==
  /\ nbars \in 0 .. MaxBars /\ ppc \in Places /\ back \in {"over", "abort", "kill_again", "exit"}
  /\ bar \in 0 .. nbars /\ iter \in 0 .. MaxRecalc
  /\ commit \in BOOLEAN /\ closed \in BOOLEAN /\ retained \in BOOLEAN
  /\ outcome \in {"none", "ok", "error", "nothing_committed"}
  /\ proc \in {"none", "running", "exited"} /\ wst \in {"none", "boot", "run", "exited"}
  /\ wbar \in None .. MaxBars - 1 /\ committed \in 0 .. MaxBars
  /\ sent = Len(tape)
  /\ \A q \in {pt, wt, down, up} : \A n \in 1 .. Len(q) : q[n].kind \in Kinds

\* The two transcripts never disagree on a message, but for the ABORT with which
\* the parent ends its own; and as long as the parent has not aborted, each side
\* accepts the next message of the other, unless that is an error line.
TranscriptsAgree ==
  /\ \A n \in 1 .. Len(pt) :
       n <= Len(wt) => pt[n] = wt[n] \/ pt[n].kind = "ABORT"
  /\ LastKind(pt) # "ABORT" =>
       /\ (wst = "run" /\ down # <<>>) => Accepts(wt, Head(down))
       /\ (ppc \in {"hello", "intents", "result"} /\ up # <<>>)
            => Accepts(pt, Head(up)) \/ Head(up).kind = "error"

\* The engine applies the worker's intents once and in the order of its tape, and
\* each in the callback it was computed for: same bar, same recalculation, by a
\* worker that had committed exactly the bars before.
IntentsInOrder ==
  /\ Len(applied) <= Len(tape)
  /\ \A n \in 1 .. Len(applied) :
       /\ applied[n].intent = tape[n]
       /\ tape[n].bar = applied[n].bar /\ tape[n].iter = applied[n].iter
       /\ tape[n].after = tape[n].bar

\* Parent and worker agree on every message they both have, and each intent is
\* applied once, in order and in the callback it was computed for
\* (isolated_worker.py, worker_protocol.py).
ProtocolAgrees == TypeOK /\ TranscriptsAgree /\ IntentsInOrder

\* When the session is over its worker has stopped, or its unit is retained for
\* another attempt, whatever way the session ended and whatever systemctl did.
\* The exception is finalize without a committed bar, which returns at once.
WorkerContained ==
  ppc = "over" =>
    wst \in {"none", "exited"} \/ retained \/ outcome = "nothing_committed"

\* The inductive form of WorkerContained.  A cleanup does not end before the unit
\* was seen stopped or was retained; and until a cleanup kills it, the process the
\* parent started outlives the unit, so that its exit means the worker's.
Containment ==
  /\ back \in {"over", "abort", "kill_again", "exit"}
  /\ wst \in {"none", "boot", "run", "exited"}
  /\ ppc = "spawn" => proc = "none" /\ wst = "none"
  /\ ppc = "reap" => wst = "exited" \/ retained
  /\ ppc \in {"hello", "engine", "intents", "result", "apply", "decide", "wait"} =>
       (proc = "exited" => wst = "exited")
  /\ WorkerContained

\* A session ends although the worker may hang at any point.
SessionEnds == <>(ppc = "over")
=============================================================================
