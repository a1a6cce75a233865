------------------------ MODULE BacktestIdempotency ------------------------
(***************************************************************************)
(* Idempotent launch of backtests: run_backtest of openpine/gateway/       *)
(* routes/backtest.py and the api_idempotency table it claims a key in.    *)
(*                                                                         *)
(* A request is one call of the handler.  The handler has no await, but    *)
(* "openpine gateway run --workers N" serves requests from N processes on  *)
(* one database and any of them may die, so every transaction is a step of *)
(* its own.  The run a request creates is named after the request.         *)
(***************************************************************************)
EXTENDS Integers

CONSTANTS
    Requests,    \* calls of POST /run with an Idempotency-Key
    Keys,        \* the keys
    Bodies,      \* request bodies, told apart by _backtest_request_hash
    PendingTTL,  \* _IDEMPOTENCY_PENDING_TTL_MS
    ResultTTL,   \* _IDEMPOTENCY_RESULT_TTL_MS
    MaxTime,     \* bound on the wall clock
    None         \* SQL NULL, and the token of a key that has no row

ASSUME RequestsAssumption == None \notin Requests

ASSUME TimesAssumption ==
    PendingTTL \in Nat /\ ResultTTL \in Nat /\ MaxTime \in Nat

VARIABLES
    token,   \* per key: the request whose claim_token the row has
    hash,    \* per key: request_hash
    result,  \* per key: result_id
    stamp,   \* per key: updated_at
    reqAt,      \* per request: the last step it has completed
    key,     \* per request: its Idempotency-Key
    body,    \* per request: its body
    run,     \* per request: the status of the run it created
    answer,  \* per request: the run it was answered with
    retired, \* runs whose completed mapping was deleted at the end of ResultTTL
    now      \* time.time()

idemVars == <<token, hash, result, stamp, reqAt, key, body, run, answer, retired, now>>

table == <<token, hash, result, stamp>>

Points == {"new", "claimed", "created", "persisted", "mapped", "scheduled",
           "answered", "rejected", "dead"}

IdemTypeOK ==
    /\ token \in [Keys -> Requests \cup {None}]
    /\ hash \in [Keys -> Bodies]
    /\ result \in [Keys -> Requests \cup {None}]
    /\ stamp \in [Keys -> Nat]
    /\ reqAt \in [Requests -> Points]
    /\ key \in [Requests -> Keys]
    /\ body \in [Requests -> Bodies]
    /\ run \in [Requests -> {"none", "running", "failed"}]
    /\ answer \in [Requests -> Requests \cup {None}]
    /\ retired \in SUBSET Requests
    /\ now \in Nat

(* The table is empty; the hash and the stamp of a missing row mean nothing. *)
IdemInit ==
    /\ token = [k \in Keys |-> None]
    /\ hash \in {[k \in Keys |-> b] : b \in Bodies}
    /\ result = [k \in Keys |-> None]
    /\ stamp = [k \in Keys |-> 0]
    /\ reqAt = [q \in Requests |-> "new"]
    /\ key \in [Requests -> Keys]
    /\ body \in [Requests -> Bodies]
    /\ run = [q \in Requests |-> "none"]
    /\ answer = [q \in Requests |-> None]
    /\ retired = {}
    /\ now = 0

ReqGoto(q, p) == reqAt' = [reqAt EXCEPT ![q] = p]

(* The two DELETE statements every claim begins with.                      *)
Expired(k) ==
    /\ token[k] # None
    /\ stamp[k] + (IF result[k] = None THEN PendingTTL ELSE ResultTTL) < now

(***************************************************************************)
(* The table operations.                                                   *)
(***************************************************************************)
Outlived == {k \in Keys : result[k] # None /\ stamp[k] + ResultTTL < now}

(* The key is taken by the same request, completed, and its run is there.  *)
Answers(q, k) ==
    hash[k] = body[q] /\ result[k] # None /\ run[result[k]] # "none"

(* INSERT OR IGNORE after the deletions.                                   *)
Claim(q) ==
    /\ reqAt[q] = "new"
    /\ LET k == key[q]
           free == token[k] = None \/ Expired(k)
       IN /\ token' = [j \in Keys |-> IF j = k /\ free THEN q
                                      ELSE IF Expired(j) THEN None ELSE token[j]]
          /\ result' = [j \in Keys |-> IF Expired(j) THEN None ELSE result[j]]
          /\ hash' = IF free THEN [hash EXCEPT ![k] = body[q]] ELSE hash
          /\ stamp' = IF free THEN [stamp EXCEPT ![k] = now] ELSE stamp
          /\ retired' = retired \cup {result[j] : j \in Outlived}
          /\ IF free
             THEN ReqGoto(q, "claimed") /\ UNCHANGED answer
             ELSE IF Answers(q, k)
             THEN ReqGoto(q, "answered") /\ answer' = [answer EXCEPT ![q] = result[k]]
             ELSE ReqGoto(q, "rejected") /\ UNCHANGED answer
    /\ UNCHANGED <<key, body, run, now>>

(* The table cannot be read or written: 503.                               *)
ClaimFails(q) ==
    /\ reqAt[q] = "new"
    /\ ReqGoto(q, "rejected")
    /\ UNCHANGED <<table, key, body, run, answer, retired, now>>

(* The claim this request still holds.                                     *)
Holds(q) ==
    /\ token[key[q]] = q
    /\ hash[key[q]] = body[q]
    /\ result[key[q]] = None

(* DELETE of the own, still incomplete claim.                              *)
Release(q) ==
    token' = IF Holds(q) THEN [token EXCEPT ![key[q]] = None] ELSE token

(* The limiter is saturated or the run cannot be created: the claim goes,  *)
(* unless the table fails as well.                                         *)
Refused(q) ==
    /\ reqAt[q] = "claimed"
    /\ Release(q) \/ UNCHANGED token
    /\ ReqGoto(q, "rejected")
    /\ UNCHANGED <<hash, result, stamp, key, body, run, answer, retired, now>>

PersistRun(q) ==
    /\ reqAt[q] = "claimed"
    /\ run' = [run EXCEPT ![q] = "running"]
    /\ ReqGoto(q, "created")
    /\ UNCHANGED <<table, key, body, answer, retired, now>>

(* persist_gateway_job; when it raises, claim and run stay as they are.    *)
PersistJob(q) ==
    /\ reqAt[q] = "created"
    /\ ReqGoto(q, "persisted") \/ ReqGoto(q, "rejected")
    /\ UNCHANGED <<table, key, body, run, answer, retired, now>>

(* Mutant: the UPDATE does not ask for the own claim.                      *)
Completes_AnyClaim(q) == TRUE

Completes(q) == Holds(q)

Complete(q) ==
    /\ reqAt[q] = "persisted"
    /\ Completes(q)
    /\ result' = [result EXCEPT ![key[q]] = q]
    /\ stamp' = [stamp EXCEPT ![key[q]] = now]
    /\ ReqGoto(q, "mapped")
    /\ UNCHANGED <<token, hash, key, body, run, answer, retired, now>>

(* Superseded, or the storage failed: the run is marked failed and the     *)
(* claim released if it is still the own one; either may fail in turn.     *)
CompleteFails(q) ==
    /\ reqAt[q] = "persisted"
    /\ Release(q) \/ UNCHANGED token
    /\ run' = [run EXCEPT ![q] = "failed"] \/ UNCHANGED run
    /\ ReqGoto(q, "rejected")
    /\ UNCHANGED <<hash, result, stamp, key, body, answer, retired, now>>

Schedule(q) ==
    /\ reqAt[q] = "mapped"
    /\ \/ /\ ReqGoto(q, "scheduled")
          /\ answer' = [answer EXCEPT ![q] = q]
          /\ UNCHANGED run
       \/ /\ ReqGoto(q, "rejected")
          /\ run' = [run EXCEPT ![q] = "failed"] \/ UNCHANGED run
          /\ UNCHANGED answer
    /\ UNCHANGED <<table, key, body, retired, now>>

(* The process serving the request dies in the middle of it.               *)
Dies(q) ==
    /\ reqAt[q] \in {"claimed", "created", "persisted", "mapped"}
    /\ ReqGoto(q, "dead")
    /\ UNCHANGED <<table, key, body, run, answer, retired, now>>

(* A starting gateway process fails every row that is running.             *)
Recover ==
    /\ \E q \in Requests : reqAt[q] = "dead" /\ run[q] = "running"
    /\ run' = [q \in Requests |-> IF run[q] = "running" THEN "failed" ELSE run[q]]
    /\ UNCHANGED <<table, reqAt, key, body, answer, retired, now>>

(* DELETE of a run the client knows; its mapping stays.                    *)
DeleteRequestRun(q) ==
    /\ reqAt[q] = "scheduled"
    /\ run[q] # "none"
    /\ run' = [run EXCEPT ![q] = "none"]
    /\ UNCHANGED <<table, reqAt, key, body, answer, retired, now>>

Tick ==
    /\ now < MaxTime
    /\ now' = now + 1
    /\ UNCHANGED <<table, reqAt, key, body, run, answer, retired>>

Step(q) ==
    \/ Claim(q) \/ ClaimFails(q) \/ Refused(q) \/ PersistRun(q) \/ PersistJob(q)
    \/ Complete(q) \/ CompleteFails(q) \/ Schedule(q) \/ Dies(q) \/ DeleteRequestRun(q)

IdemNext == (\E q \in Requests : Step(q)) \/ Recover \/ Tick

IdemSpec == IdemInit /\ [][IdemNext]_idemVars

(***************************************************************************)
(* Properties.                                                             *)
(***************************************************************************)
(* One key launches one run: while the key-to-run mapping is retained no   *)
(* second request with the key gets its run scheduled, whatever claims     *)
(* expired, were superseded or lost their process in between.              *)
OneRunPerKey ==
    \A p, q \in Requests :
        /\ reqAt[p] = "scheduled" /\ reqAt[q] = "scheduled"
        /\ p \notin retired /\ q \notin retired
        /\ key[p] = key[q]
        => p = q

(* A request is answered only with a run of the same key and the same body:*)
(* a retained key with another body never yields a run.                    *)
AnswerMatchesRequest ==
    \A q \in Requests :
        answer[q] # None =>
            key[answer[q]] = key[q] /\ body[answer[q]] = body[q]

(* A key stands for one run and one body, to its caller and in the store.  *)
OneRunOneAnswer == IdemTypeOK /\ OneRunPerKey /\ AnswerMatchesRequest

(* What makes both inductive: a row holds the key and the hash of the      *)
(* request that claimed it, it is completed by that request only, and a    *)
(* mapped run stays the result of its key until its time is over.          *)
Inductive ==
    /\ IdemTypeOK
    /\ \A k \in Keys : token[k] = None => result[k] = None
    /\ \A k \in Keys : token[k] # None => key[token[k]] = k /\ hash[k] = body[token[k]]
    /\ \A k \in Keys : result[k] # None => result[k] = token[k]
    /\ \A q \in Requests :
        reqAt[q] \in {"mapped", "scheduled"} /\ q \notin retired => result[key[q]] = q
    /\ AnswerMatchesRequest
=============================================================================
