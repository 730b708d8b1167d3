----------------------------- MODULE Schedules -----------------------------
(***************************************************************************)
(* Recurring schedules: Scheduler._run_due_schedules of                    *)
(* ksec/scheduler/service.py over the store of ksec/scheduler/schedules.py,*)
(* with the commands of ksec/cli/jobs.py that edit and run schedules.      *)
(*                                                                         *)
(* Each worker (one per instance, over the same database) makes passes: it *)
(* reads the clock and the list, and for each due schedule first submits a *)
(* job and then stamps the row.  A terminal that adds or runs a schedule   *)
(* asks the policy engine first.  Minutes are the resolution of cron.      *)
(***************************************************************************)
EXTENDS Integers, FiniteSets

CONSTANTS
    Workers,    \* worker threads, one per instance
    Scheds,     \* identifiers of schedules
    Due,        \* Due[s]: the minutes the cron expression of s matches
    MaxMinute,  \* bound on the clock
    MaxCrashes, \* bound on the workers that die in a pass
    Ops         \* which of "edit", "run", "refuse", "revoke" may happen

Minutes == 0..MaxMinute
Never   == -1

ASSUME ScheduleAssumption ==
    /\ MaxMinute \in Nat /\ MaxCrashes \in Nat
    /\ Scheds \subseteq Nat /\ IsFiniteSet(Scheds)
    /\ IsFiniteSet(Workers)
    /\ Due \in [Scheds -> SUBSET Minutes]

VARIABLES
    minute,   \* the clock
    row,      \* job_schedules.enabled: "on", "off", or "new" or "gone"
    lastRun,  \* last_run_at, truncated to the minute
    at,       \* the minute each worker's pass has read
    pending,  \* what is left of the list its pass has read
    seen,     \* last_run_at as that list has it
    marking,  \* the schedule it has submitted and not yet stamped
    allowed,  \* the owner is authorised for the target (policy gate)
    asked,    \* the command at the terminal that has passed that gate
    fired,    \* history: jobs submitted for a schedule at a minute
    crashes

scheduleVars == <<minute, row, lastRun, at, pending, seen, marking, allowed, asked,
                  fired, crashes>>
passVars == <<at, pending, seen, marking>>

Nothing == [do |-> "nothing", s |-> 0]

ScheduleInit ==
    /\ minute = 0
    /\ row \in [Scheds -> {"new", "on"}]
    /\ lastRun = [s \in Scheds |-> Never]
    /\ at = [w \in Workers |-> Never]
    /\ pending = [w \in Workers |-> {}]
    /\ seen = [w \in Workers |-> [s \in Scheds |-> Never]]
    /\ marking = [w \in Workers |-> {}]
    /\ allowed = [s \in Scheds |-> TRUE]
    /\ asked = Nothing
    /\ fired = [s \in Scheds |-> [m \in Minutes |-> 0]]
    /\ crashes = 0

MinutePasses ==
    /\ minute < MaxMinute
    /\ minute' = minute + 1
    /\ UNCHANGED <<row, lastRun, passVars, allowed, asked, fired, crashes>>

Between(w) == pending[w] = {} /\ marking[w] = {}

StartPass(w) ==
    /\ Between(w)
    /\ at' = [at EXCEPT ![w] = minute]
    /\ pending' = [pending EXCEPT ![w] = {s \in Scheds : row[s] = "on"}]
    /\ seen' = [seen EXCEPT ![w] = lastRun]
    /\ UNCHANGED <<minute, row, lastRun, marking, allowed, asked, fired, crashes>>

\* ORDER BY id
IsNext(w, s) == s \in pending[w] /\ \A r \in pending[w] : s <= r

MustFireAlways(w, s) == at[w] \in Due[s]
\* cron_matches, and not "already fired this minute"
MustFire(w, s) == at[w] \in Due[s] /\ seen[w][s] # at[w]

\* The schedule is skipped: not due, already fired, or submit() refuses.
Skip(w, s) ==
    /\ marking[w] = {} /\ IsNext(w, s)
    /\ MustFire(w, s) => "refuse" \in Ops
    /\ pending' = [pending EXCEPT ![w] = @ \ {s}]
    /\ UNCHANGED <<minute, row, lastRun, at, seen, marking, allowed, asked, fired, crashes>>

Fire(w, s) ==
    /\ marking[w] = {} /\ IsNext(w, s)
    /\ MustFire(w, s)
    /\ fired' = [fired EXCEPT ![s][at[w]] = @ + 1]
    /\ pending' = [pending EXCEPT ![w] = @ \ {s}]
    /\ marking' = [marking EXCEPT ![w] = {s}]
    /\ UNCHANGED <<minute, row, lastRun, at, seen, allowed, asked, crashes>>

\* mark_run reads the clock again
Stamp(w) == minute

Mark(w) ==
    /\ \E s \in marking[w] :
          lastRun' = IF row[s] = "gone" THEN lastRun
                                        ELSE [lastRun EXCEPT ![s] = Stamp(w)]
    /\ marking' = [marking EXCEPT ![w] = {}]
    /\ UNCHANGED <<minute, row, at, pending, seen, allowed, asked, fired, crashes>>

\* The process dies in its pass; another one is started.
Crash(w) ==
    /\ ~Between(w)
    /\ crashes < MaxCrashes
    /\ crashes' = crashes + 1
    /\ pending' = [pending EXCEPT ![w] = {}]
    /\ marking' = [marking EXCEPT ![w] = {}]
    /\ UNCHANGED <<minute, row, lastRun, at, seen, allowed, asked, fired>>

-----------------------------------------------------------------------------
\* A schedule is added on an authorised target only: the policy engine is asked,
\* then the row is created.
ScheduleAdd(s) ==
    /\ "edit" \in Ops
    /\ asked = Nothing /\ row[s] = "new" /\ allowed[s]
    /\ asked' = [do |-> "add", s |-> s]
    /\ UNCHANGED <<minute, row, lastRun, passVars, allowed, fired, crashes>>

Create ==
    /\ asked.do = "add"
    /\ row' = [row EXCEPT ![asked.s] = "on"]
    /\ asked' = Nothing
    /\ UNCHANGED <<minute, lastRun, passVars, allowed, fired, crashes>>

ScheduleRemove(s) ==
    /\ "edit" \in Ops
    /\ row[s] \in {"on", "off"}
    /\ row' = [row EXCEPT ![s] = "gone"]
    /\ UNCHANGED <<minute, lastRun, passVars, allowed, asked, fired, crashes>>

\* An operation of the store that no command offers.
SetEnabled(s, enabled) ==
    /\ "edit" \in Ops
    /\ row[s] \in {"on", "off"}
    /\ row' = [row EXCEPT ![s] = IF enabled THEN "on" ELSE "off"]
    /\ UNCHANGED <<minute, lastRun, passVars, allowed, asked, fired, crashes>>

\* `ksec job schedule run`: the policy engine is asked, then a job of its own is
\* submitted, which may be refused, then the row, if there is one, is stamped.
RunNow(s) ==
    /\ "run" \in Ops
    /\ asked = Nothing /\ row[s] \in {"on", "off"} /\ allowed[s]
    /\ asked' = [do |-> "submit", s |-> s]
    /\ UNCHANGED <<minute, row, lastRun, passVars, allowed, fired, crashes>>

SubmitNow ==
    /\ asked.do = "submit"
    /\ \/ asked' = [asked EXCEPT !.do = "stamp"]
       \/ "refuse" \in Ops /\ asked' = Nothing
    /\ UNCHANGED <<minute, row, lastRun, passVars, allowed, fired, crashes>>

StampNow ==
    /\ asked.do = "stamp"
    /\ lastRun' = IF row[asked.s] = "gone" THEN lastRun
                                         ELSE [lastRun EXCEPT ![asked.s] = minute]
    /\ asked' = Nothing
    /\ UNCHANGED <<minute, row, passVars, allowed, fired, crashes>>

\* The scope or the owner's authorisation changes.
Revoke(s) ==
    /\ "revoke" \in Ops
    /\ allowed[s]
    /\ allowed' = [allowed EXCEPT ![s] = FALSE]
    /\ UNCHANGED <<minute, row, lastRun, passVars, asked, fired, crashes>>

PassStep(w) ==
    \/ StartPass(w) \/ Mark(w) \/ Crash(w)
    \/ \E s \in Scheds : Skip(w, s) \/ Fire(w, s)

EditStep(s) ==
    \/ ScheduleAdd(s) \/ ScheduleRemove(s) \/ RunNow(s) \/ Revoke(s)
    \/ \E enabled \in BOOLEAN : SetEnabled(s, enabled)

ScheduleNext ==
    \/ MinutePasses
    \/ \E w \in Workers : PassStep(w)
    \/ \E s \in Scheds : EditStep(s)
    \/ Create \/ SubmitNow \/ StampNow

ScheduleSpec == ScheduleInit /\ [][ScheduleNext]_scheduleVars

-----------------------------------------------------------------------------
\* A schedule fires at most once a minute for each worker and for each crash,
\* although it is stamped only after the job was submitted, with a clock read
\* later, and although several workers and manual runs stamp the same row.
FiringIsBounded ==
    \A s \in Scheds, m \in Minutes :
        fired[s][m] <= Cardinality(Workers) + crashes

\* knowledge/topics.py:517, "every run re-checks it": what fires is authorised
\* when it fires.
RunsAreRechecked ==
    [][\A w \in Workers, s \in Scheds : Fire(w, s) => allowed[s]]_scheduleVars
=============================================================================
