------------------------------ MODULE Releases ------------------------------
(***************************************************************************)
(* Environments and what they execute.  A promotion validates a version,   *)
(* checks that it is ready for the environment and writes the row of the   *)
(* release; a run in an environment selects the released version, or else  *)
(* the published or the latest one, checks it in the same way and is       *)
(* created.  Each reads in several transactions, while versions are saved  *)
(* and published as in Versions and the policies of environments change.   *)
(***************************************************************************)
EXTENDS Versions

CONSTANTS
    Environments,
    Policies,     \* the policies an environment may have
    Default,      \* the policy of an environment that names none
    Ready,        \* the pairs of a content and a policy that are ready
    MaxRequests   \* bound: requests

ASSUME ReleasesAssumption ==
    /\ IsFiniteSet(Environments)
    /\ Default \in Policies
    /\ Ready \subseteq Contents \X Policies
    /\ MaxRequests \in Nat

VARIABLES
    policy,    \* the policy of every environment, None where there is no row
    release,   \* the released version of every environment, or None
    run,       \* the run that is queued in every environment, or None
    work,      \* what each request that is not one of Versions is doing
    requests,  \* the number of requests so far
    stale,     \* history: requests for which what they read has changed
    outdated   \* history: releases and runs for which that is so

releaseVars == <<policy, release, run, work, requests, stale, outdated>>
allVars == <<vars, releaseVars>>

Work == [op      : {"environment", "ensure", "promote", "run", "run_version"},
         place   : {"validate", "environment", "content", "policy", "select",
                    "write", "release", "list", "version"},
         env     : Environments,
         version : Version \union {None},
         content : Contents \union {None},
         policy  : Policies \union {None},
         how     : {"insert", "update", "keep"}]

Run == [version : Version, asked : BOOLEAN]

ASSUME NoReleaseAssumption ==
    /\ None \notin Version /\ None \notin Policies
    /\ None \notin Work /\ None \notin Run

ReleasesTypeOK ==
    /\ TypeOK
    /\ policy \in [Environments -> Policies \union {None}]
    /\ release \in [Environments -> Version \union {None}]
    /\ run \in [Environments -> Run \union {None}]
    /\ work \in [Actors -> Work \union {None}]
    /\ requests \in 0..MaxRequests
    /\ stale \subseteq Actors
    /\ outdated \subseteq {"release", "run"} \X Environments

ReleasesInit ==
    /\ Init
    /\ policy \in [Environments -> {Default, None}]
    /\ release = [e \in Environments |-> None]
    /\ run = [e \in Environments |-> None]
    /\ work = [a \in Actors |-> None]
    /\ requests = 0
    /\ stale = {}
    /\ outdated = {}

-----------------------------------------------------------------------------
(* Requests                                                                *)

Start(a, op, place, e, v, p) ==
    /\ todo[a] = << >> /\ work[a] = None
    /\ requests < MaxRequests
    /\ requests' = requests + 1
    /\ work' = [work EXCEPT ![a] =
           [op |-> op, place |-> place, env |-> e, version |-> v,
            content |-> None, policy |-> p, how |-> "insert"]]
    /\ stale' = stale \ {a}
    /\ UNCHANGED <<vars, policy, release, run, outdated>>

PutEnvironment(a) ==
    \E e \in Environments :
        \/ \E p \in Policies : Start(a, "environment", "select", e, None, p)
        \/ Start(a, "ensure", "select", e, None, Default)

PromoteVersion(a) ==
    \E e \in Environments, v \in Existing : Start(a, "promote", "validate", e, v, None)

RunInEnvironment(a) ==
    \E e \in Environments :
        \/ Start(a, "run", "release", e, None, None)
        \/ \E v \in Existing : Start(a, "run_version", "version", e, v, None)

\* A request for a version is one of Versions; it begins as it does there.
RequestVersion(a) ==
    /\ work[a] = None
    /\ requests < MaxRequests
    /\ Request(a)
    /\ requests' = requests + 1
    /\ UNCHANGED <<policy, release, run, work, stale, outdated>>

-----------------------------------------------------------------------------
(* What a change makes stale                                               *)

Doing(a, place, ops) == work[a] # None /\ work[a].place = place /\ work[a].op \in ops

\* The versions whose content this step overwrites.
Overwritten == {v \in Existing : rows'[v].content # rows[v].content}

\* The environments that this step gives another policy or release.
Changed == {e \in Environments : policy'[e] # policy[e]}
Moved   == {e \in Environments : release'[e] # release[e]}

\* A request is stale when the content or the policy it has checked is
\* replaced, or another version is released after it selected one.
Checked(b) == work[b].place \in {"select", "write"} /\ work[b].op \notin {"environment", "ensure"}

StaleNow(a) ==
    {b \in Actors \ {a} : work[b] # None
        /\ \/ work[b].version \in Overwritten /\ work[b].content # None
           \/ work[b].env \in Changed /\ Checked(b)
           \/ work[b].env \in Moved /\ work[b].op = "run" /\ work[b].place # "release"}

OutdatedNow ==
    {<<"release", e>> : e \in {f \in Environments : release[f] # None
        /\ (release[f] \in Overwritten \/ f \in Changed)}}
    \union
    {<<"run", e>> : e \in {f \in Environments : run[f] # None
        /\ (run[f].version \in Overwritten \/ f \in Changed)}}

\* The steps that only read.
Continue(a, next) ==
    /\ work' = [work EXCEPT ![a] = next]
    /\ UNCHANGED <<vars, policy, release, run, requests, stale, outdated>>

Fail(a) == Continue(a, None)

\* A step of Versions.
VersionStep(a) ==
    /\ Save(a) \/ Publish(a)
    /\ UNCHANGED <<policy, release, run, work, requests>>
    /\ stale' = stale \union StaleNow(a)
    /\ outdated' = outdated \union OutdatedNow

-----------------------------------------------------------------------------
(* Environments                                                            *)

\* How the value that was read is replaced: a value that is the same is not in
\* the UPDATE.
How(old, new) == CASE old = None -> "insert" [] old = new -> "keep" [] OTHER -> "update"

\* ensure_environment returns the environment it finds.
SelectEnvironment(a) ==
    /\ Doing(a, "select", {"environment", "ensure"})
    /\ LET old == policy[work[a].env]
       IN  IF old # None /\ work[a].op = "ensure"
           THEN Fail(a)
           ELSE Continue(a, [work[a] EXCEPT !.place = "write", !.how = How(old, work[a].policy)])

\* Inserting the environment that somebody else has inserted is an error.
WriteEnvironment(a) ==
    /\ Doing(a, "write", {"environment", "ensure"})
    /\ LET e == work[a].env
       IN  policy' = IF work[a].how = "update" \/ policy[e] = None
                     THEN [policy EXCEPT ![e] = work[a].policy]
                     ELSE policy
    /\ work' = [work EXCEPT ![a] = None]
    /\ UNCHANGED <<vars, release, run, requests>>
    /\ stale' = stale \union StaleNow(a)
    /\ outdated' = outdated \union OutdatedNow

-----------------------------------------------------------------------------
(* Selection, readiness                                                    *)

\* Mutant: the release is not asked for.
SelectedPlaceIgnored(e) == "list"

\* Where the selection of a run in environment e goes on.
SelectedPlace(e) == IF release[e] # None THEN "version" ELSE "list"

ReadRelease(a) ==
    /\ Doing(a, "release", {"run"})
    /\ LET e == work[a].env
       IN  Continue(a, [work[a] EXCEPT !.place = SelectedPlace(e), !.version = release[e]])

\* The latest published version, or else the latest one.
ListVersions(a) ==
    /\ Doing(a, "list", {"run"})
    /\ \E v \in Existing :
        /\ v \in Published \/ Published = {}
        /\ \A w \in IF Published = {} THEN Existing ELSE Published : w <= v
        /\ IF rows[v].content \in Valid
           THEN Continue(a, [work[a] EXCEPT !.place = "content", !.version = v])
           ELSE Fail(a)

\* The version is loaded and validated.
LoadVersion(a) ==
    /\ \/ Doing(a, "version", {"run", "run_version"})
       \/ Doing(a, "validate", {"promote"})
    /\ IF rows[work[a].version].content \notin Valid THEN Fail(a)
       ELSE Continue(a, [work[a] EXCEPT
                !.place = IF work[a].op = "promote" THEN "environment" ELSE "content"])

CheckEnvironment(a) ==
    /\ Doing(a, "environment", {"promote"})
    /\ IF policy[work[a].env] = None THEN Fail(a)
       ELSE Continue(a, [work[a] EXCEPT !.place = "content"])

\* get_workflow_readiness loads the version once more, and then the policy.
ReadContent(a) ==
    /\ Doing(a, "content", {"promote", "run", "run_version"})
    /\ Continue(a, [work[a] EXCEPT !.place = "policy",
                                   !.content = rows[work[a].version].content])

\* Mutant: the policy is not looked at.
IsReadyAnywhere(content, p) == content \in Valid /\ p # None

IsReady(content, p) == content \in Valid /\ p # None /\ <<content, p>> \in Ready

ReadPolicy(a) ==
    /\ Doing(a, "policy", {"promote", "run", "run_version"})
    /\ IF ~IsReady(work[a].content, policy[work[a].env]) THEN Fail(a)
       ELSE Continue(a, [work[a] EXCEPT
                !.place = IF work[a].op = "promote" THEN "select" ELSE "write"])

-----------------------------------------------------------------------------
(* The row of the release, and the run                                     *)

SelectRelease(a) ==
    /\ Doing(a, "select", {"promote"})
    /\ Continue(a, [work[a] EXCEPT !.place = "write",
                                   !.how = How(release[work[a].env], work[a].version)])

\* The slot of environment e is written by the request a.
Mark(slot, a) ==
    LET others == outdated \ {<<slot, work[a].env>>}
    IN  outdated' = IF a \in stale THEN others \union {<<slot, work[a].env>>} ELSE others

\* Inserting a release that somebody else has inserted is an error.
WriteRelease(a) ==
    /\ Doing(a, "write", {"promote"})
    /\ LET e == work[a].env
           v == work[a].version
       IN  IF work[a].how = "insert" /\ release[e] # None THEN Fail(a)
           ELSE /\ release' = [release EXCEPT ![e] = IF work[a].how = "keep" THEN @ ELSE v]
                /\ IF release'[e] = v THEN Mark("release", a) ELSE UNCHANGED outdated
                /\ work' = [work EXCEPT ![a] = None]
                /\ UNCHANGED <<vars, policy, run, requests>>
                /\ stale' = stale \union StaleNow(a)

\* Bound: one run is queued in an environment at a time.
CreateRun(a) ==
    /\ Doing(a, "write", {"run", "run_version"})
    /\ run[work[a].env] = None
    /\ run' = [run EXCEPT ![work[a].env] =
           [version |-> work[a].version, asked |-> work[a].op = "run_version"]]
    /\ Mark("run", a)
    /\ work' = [work EXCEPT ![a] = None]
    /\ UNCHANGED <<vars, policy, release, requests, stale>>

\* A worker takes the run.
StartRun(e) ==
    /\ run[e] # None
    /\ run' = [run EXCEPT ![e] = None]
    /\ outdated' = outdated \ {<<"run", e>>}
    /\ UNCHANGED <<vars, policy, release, work, requests, stale>>

-----------------------------------------------------------------------------
Environment(a) == SelectEnvironment(a) \/ WriteEnvironment(a)
Promote(a)     == CheckEnvironment(a) \/ SelectRelease(a) \/ WriteRelease(a)
Select(a)      == ReadRelease(a) \/ ListVersions(a) \/ LoadVersion(a)
Readiness(a)   == ReadContent(a) \/ ReadPolicy(a)

ReleasesNext ==
    \/ \E a \in Actors :
        \/ RequestVersion(a) \/ PutEnvironment(a) \/ PromoteVersion(a) \/ RunInEnvironment(a)
        \/ VersionStep(a) \/ Environment(a) \/ Promote(a) \/ Select(a) \/ Readiness(a)
        \/ CreateRun(a)
    \/ \E e \in Environments : StartRun(e)

ReleasesSpec == ReleasesInit /\ [][ReleasesNext]_allVars

-----------------------------------------------------------------------------
(* Properties                                                              *)

\* What an environment has released is ready for it, and so is the run that is
\* queued in it ("enforce readiness checks during environment promotion and
\* environment-scoped runs"), however requests interleave: unless the version
\* was overwritten or the policy replaced after it was checked, and nothing
\* checks it again.
ReleasedIsReady ==
    \A e \in Environments :
        /\ release[e] # None /\ <<"release", e>> \notin outdated =>
               policy[e] # None /\ <<rows[release[e]].content, policy[e]>> \in Ready
        /\ run[e] # None /\ <<"run", e>> \notin outdated =>
               policy[e] # None /\ <<rows[run[e].version].content, policy[e]>> \in Ready

\* A run that does not ask for a version executes the released one, if there is
\* one, whatever is published, unless a promotion or a publication intervened.
EnvironmentRunsItsRelease ==
    [][\A e \in Environments :
         run'[e] # None /\ run[e] = None /\ ~run'[e].asked /\ release[e] # None
           /\ <<"run", e>> \notin outdated' => run'[e].version = release[e]]_allVars
=============================================================================
