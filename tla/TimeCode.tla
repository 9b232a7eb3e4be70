------------------------------ MODULE TimeCode ------------------------------
(***************************************************************************)
(* src/security/timecode.rs: codes bound to a timestamp under a secret     *)
(* anchor, the temporal barrier a computation runs behind, and the two     *)
(* games that are played with an adversary.                                *)
(*                                                                         *)
(* The games are the functions of the code, called in any order and any    *)
(* number of times on one anchor; what the adversary learnt in one call it *)
(* still knows in the next.  HMAC is symbolic: the code of a timestamp is  *)
(* a value of its own, which nobody computes without the anchor.           *)
(***************************************************************************)
EXTENDS Naturals

CONSTANTS
  Timestamps,
  Timeouts,
  MaxClock     \* bound: how long the clock is followed

ASSUME TimeCodeAssumption == Timestamps \subseteq Nat /\ Timeouts \subseteq Nat /\ MaxClock \in Nat

VARIABLES
  clock,     \* the monotonic clock behind Instant
  run,       \* the call of the barrier: where it is and what it has measured
  memory,    \* secret_result
  known,     \* the codes the adversary has been shown, in all games so far
  game       \* the game being played

barrierVars == <<clock, run, memory>>
gameVars    == <<known, game>>
timeCodeVars        == <<barrierVars, gameVars>>

Code(t) == <<"code", t>>
Random  == <<"random">>
Empty   == <<"empty">>     \* no value yet, or zeros

\* Slips of the code that the properties must notice; no specification uses
\* them.
SinceComputed(start, ended)  == clock - ended
NotLogged(queried, t)        == queried
UpToNow(t, currentT)         == t > currentT

\* start_time.elapsed(), read once f has ended.
Elapsed(start, ended) == clock - start

\* queried_timestamps.insert
Logged(queried, t) == queried \cup {t}

\* Invalid attack bounds.
OutOfBounds(t, currentT) == t >= currentT

-----------------------------------------------------------------------------
(* The barrier. *)

Idle == [at |-> "idle"]

StartRun ==
  /\ run.at \in {"idle", "returned"}
  /\ \E timeout \in Timeouts : run' = [at |-> "computing", timeout |-> timeout, start |-> clock]
  /\ memory' = Empty
  /\ UNCHANGED <<clock, gameVars>>

\* f returns its secret.
Compute ==
  /\ run.at = "computing"
  /\ run' = [at |-> "computed", timeout |-> run.timeout, start |-> run.start, ended |-> clock]
  /\ \E t \in Timestamps : memory' = Code(t)
  /\ UNCHANGED <<clock, gameVars>>

\* duration
Measure ==
  /\ run.at = "computed"
  /\ run' = [at |-> "measured", timeout |-> run.timeout, start |-> run.start, ended |-> run.ended,
             duration |-> Elapsed(run.start, run.ended)]
  /\ UNCHANGED <<clock, memory, gameVars>>

\* What is late is wiped and dropped; at the limit it is in time.
Decide ==
  LET late == run.duration > run.timeout
  IN  /\ run.at = "measured"
      /\ run' = [at |-> "returned", timeout |-> run.timeout, start |-> run.start,
                 ended |-> run.ended, result |-> IF late THEN Empty ELSE memory]
      /\ memory' = IF late THEN Empty ELSE memory
      /\ UNCHANGED <<clock, gameVars>>

\* Time passes at any point, as the process may be suspended there.
Tick ==
  /\ clock < MaxClock
  /\ clock' = clock + 1
  /\ UNCHANGED <<run, memory, gameVars>>

-----------------------------------------------------------------------------
(* The games.  "before" remembers what was known when the game began. *)

NoGame == [name |-> "none"]

Over(name) == name \in {"none", "forged", "guessed", "refused"}

\* run_euf_cma_game, with an empty log.
StartForgery ==
  /\ Over(game.name)
  /\ game' = [name |-> "forging", before |-> known, queried |-> {}]
  /\ UNCHANGED <<known, barrierVars>>

\* sign_oracle
Query ==
  /\ game.name = "forging"
  /\ \E t \in Timestamps :
       /\ game' = [game EXCEPT !.queried = Logged(@, t)]
       /\ known' = known \cup {Code(t)}
  /\ UNCHANGED barrierVars

\* The adversary submits a code it has been shown, or a blind one.
Submit ==
  /\ game.name = "forging"
  /\ \E t \in Timestamps, sig \in known \cup {Random} :
       game' = [name |-> "forged", before |-> game.before, t |-> t, sig |-> sig,
                won |-> t \notin game.queried /\ sig = Code(t)]
  /\ UNCHANGED <<known, barrierVars>>

\* run_forward_secrecy_game, up to the choice of the adversary.
StartSecrecy ==
  /\ Over(game.name)
  /\ \E currentT \in Timestamps :
       /\ game' = [name |-> "choosing", before |-> known, currentT |-> currentT]
       /\ known' = known \cup {Code(currentT)}
  /\ UNCHANGED barrierVars

\* t_prime, the coin and the challenge.
Choose ==
  /\ game.name = "choosing"
  /\ \E t \in Timestamps, b \in BOOLEAN :
       game' = IF OutOfBounds(t, game.currentT) THEN [name |-> "refused"]
               ELSE [name |-> "challenged", before |-> game.before, b |-> b,
                     shown |-> known, challenge |-> IF b THEN Random ELSE Code(t)]
  /\ UNCHANGED <<known, barrierVars>>

\* guess; the challenge stays with the adversary.
Guess ==
  /\ game.name = "challenged"
  /\ known' = known \cup {game.challenge}
  /\ \E b \in BOOLEAN :
       game' = [name |-> "guessed", before |-> game.before, b |-> game.b, shown |-> game.shown,
                challenge |-> game.challenge, won |-> b = game.b]
  /\ UNCHANGED barrierVars

-----------------------------------------------------------------------------
TimeCodeInit ==
  /\ clock = 0 /\ run = Idle /\ memory = Empty
  /\ known = {} /\ game = NoGame

TimeCodeNext ==
  \/ StartRun \/ Compute \/ Measure \/ Decide \/ Tick
  \/ StartForgery \/ Query \/ Submit
  \/ StartSecrecy \/ Choose \/ Guess

TimeCodeSpec == TimeCodeInit /\ [][TimeCodeNext]_timeCodeVars

-----------------------------------------------------------------------------
\* A secret that leaves the barrier was computed in time, however the process was
\* suspended between the computation, the measurement and the return; one that
\* does not leave it is gone from memory as well.
LateIsDropped ==
  run.at = "returned" =>
    /\ run.result # Empty => run.ended - run.start <= run.timeout
    /\ run.result = memory

\* A forgery that wins submits a code that was known before the game: nothing the
\* oracle says in a game, in whatever order it is asked, wins that game.
WinsOnlyWithOldCode ==
  game.name = "forged" /\ game.won => game.sig \in game.before

\* A true challenge never is what this game has shown: an adversary that
\* recognises it has known it before the game.
ChallengeIsNotShown ==
  game.name \in {"challenged", "guessed"} /\ game.challenge \in game.shown =>
    game.challenge \in game.before
=============================================================================
