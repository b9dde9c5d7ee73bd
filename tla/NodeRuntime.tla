---------------------------- MODULE NodeRuntime -----------------------------
(***************************************************************************)
(* The execution of one node of a run: a tool, a prompt to a language      *)
(* model or an agent, which calls its tools one by one, drafts an answer   *)
(* after each and remembers both.  An attempt that fails is repeated, up   *)
(* to the node's attempts, unless the run was paused in between and is     *)
(* taken up by another worker, which has nothing but the run's row and the *)
(* artifact files that it refers to.                                       *)
(*                                                                         *)
(* Storing a payload is two steps: its files are written, and then the     *)
(* row.  The process may die anywhere, the disk may be full, and the files *)
(* may be gone.  There is one worker at a time; RunLifecycle shows when    *)
(* there are two.  Of the events only the last one is here, which repeats  *)
(* the result; the others are small and say nothing that JSON cannot.      *)
(***************************************************************************)
EXTENDS Payloads, FiniteSets

CONSTANTS
    Configs,      \* the configurations of the node
    Inputs,       \* the input payloads of the run
    ToolOutputs,  \* what a tool may return
    Drafts,       \* what a model may answer
    Unfit,        \* the answers that the guardrails object to
    Sensitive,    \* the data that is stored under a sensitive key
    Limits,       \* the limits on stored payloads
    Faults,       \* what the file system may do
    MaxPauses,    \* bound: pauses
    MaxCrashes,   \* bound: crashes
    None          \* nothing stored

ASSUME FaultsAssumption == Faults \subseteq {"full", "lost"}
ASSUME BoundsAssumption == MaxPauses \in Nat /\ MaxCrashes \in Nat
\* The run's input came as JSON, and answers are texts.  What the run stores
\* of its payloads is deeper than they are, but not too deep; they have no
\* references themselves.
ASSUME PayloadsAssumption ==
    /\ MaxDepth >= 4
    /\ \A p \in Inputs \union ToolOutputs :
          p \in Nested[MaxDepth - 4] /\ \A a \in Within[p] : ~IsReference(a)
    /\ \A p \in Inputs : IsJson(p)
    /\ \A draft \in Drafts : draft \in Leaves /\ IsJson(draft)
    /\ None \notin Payload
\* What the program writes itself is text; the guardrails accept the fallbacks.
ASSUME TextsAssumption ==
    /\ {"book", "empty", "redacted", "fallback_output", "fallback_response"}
           \subseteq Data \ DOMAIN AsText
    /\ {"fallback_output", "fallback_response"} \intersect Unfit = {}
ASSUME ConfigsAssumption ==
    \A c \in Configs :
        /\ c.kind \in {"tool", "prompt", "agent"}
        /\ c.tools \in Nat              \* the length of tool_sequence
        /\ c.turns \in Nat              \* max_iterations
        /\ c.attempts \in Nat \ {0}     \* retry_policy.max_attempts
        /\ {c.reflects, c.guarded, c.fallback, c.stand_in} \subseteq BOOLEAN

VARIABLES
    config,    \* the node's configuration
    limit,     \* the limit on stored payloads, 0 for none
    status,    \* the run's status
    step,      \* the status of the node's step
    row,       \* the payload columns of the run and of its step
    files,     \* the artifact files
    pc,        \* where the worker is; "idle" when there is none
    local,     \* the worker's context: the input, the agent's memory, the attempts
    turn,      \* the agent's iteration
    said,      \* what this attempt has heard from tools and models
    output,    \* the answer so far, and then the output of the node
    writing,   \* a payload whose files are written, and its row is not
    happened,  \* history: all that tools and models ever said
    calls,     \* history: how often each tool of the sequence was called
    wrote,     \* history: the payloads that were stored in the columns
    full,      \* history: the disk was full
    excused,   \* history: a process died, or the file system failed at its worst
    pauses,    \* history: the number of pauses
    crashes    \* history: the number of crashes

runVars  == <<config, limit, status, step, row, files>>
nodeVars == <<local, turn, said, output>>
history  == <<happened, calls, wrote, full, excused, pauses, crashes>>
vars     == <<runVars, pc, nodeVars, writing, history>>

Columns == {"input", "state", "output", "result", "event"}
Saving  == {"start", "retry", "output", "save", "result", "event"}
Places  == Saving \union {"idle", "load", "control", "parked", "begin", "call", "generate",
                          "reflect", "guard", "fail", "bury", "letter", "end"}

Fresh(input) == [input |-> input, memory |-> << >>, attempts |-> 0]

Init ==
    /\ config \in Configs
    /\ limit \in Limits
    /\ status = "queued"
    /\ step = "pending"
    /\ \E input \in Inputs :
        LET stored == Prepared(input, 0, limit)
        IN  /\ row = [c \in Columns |-> IF c = "input" THEN stored.value ELSE None]
            /\ files = stored.files
            /\ wrote = [c \in Columns |-> IF c = "input" THEN input ELSE None]
    /\ pc = "idle"
    /\ local = Fresh(None)
    /\ turn = 0
    /\ said = << >>
    /\ output = None
    /\ writing = None
    /\ happened = << >>
    /\ calls = [t \in 1..config.tools |-> 0]
    /\ full = FALSE
    /\ excused = FALSE
    /\ pauses = 0
    /\ crashes = 0

-----------------------------------------------------------------------------
(* What is stored                                                          *)

\* The fallback output of the node, in the place of its output.
StandIn == Leaf("fallback_output", 1)

Book(state) == [data |-> "book", size |-> 1, attempts |-> state.attempts]

\* execution_state: the attempts, and the context.
State ==
    LET context == <<local.input, Branch(local.memory)>>
    IN  Branch(<<Book(local), Branch(IF step = "succeeded" THEN Append(context, output)
                                                           ELSE context)>>)

\* Mutant: the attempts of a run that is taken up again start anew.
RestoredAnew(state) == [input    |-> state.items[2].items[1],
                        memory   |-> state.items[2].items[2].items,
                        attempts |-> 0]

Restored(state) == [input    |-> state.items[2].items[1],
                    memory   |-> state.items[2].items[2].items,
                    attempts |-> state.items[1].attempts]

\* The last event shows the steps, whose outputs are redacted, and the last
\* output, of which the response and what is under sensitive keys is.
Hidden == Leaf("redacted", 1)

Open(leaf) == IF leaf.data \in Sensitive THEN Hidden ELSE leaf

Redacted(p) == IF IsBranch(p) THEN Branch([i \in DOMAIN p.items |-> Open(p.items[i])])
                              ELSE Open(p)

\* An agent's memory has the outputs of its tools under a sensitive key, the
\* list of its iterations has not.
Recalled(leaf) == IF leaf \in Drafts THEN leaf ELSE Hidden

Shown ==
    CASE output = StandIn -> Hidden
      [] output # StandIn /\ config.kind = "tool"   -> Redacted(output)
      [] output # StandIn /\ config.kind = "prompt" -> Hidden
      [] output # StandIn /\ config.kind = "agent"  ->
             Branch(<<Branch([i \in DOMAIN said |-> Redacted(said[i])]),
                      Branch([i \in DOMAIN local.memory |-> Recalled(local.memory[i])]),
                      Hidden>>)

\* The payload to be stored at each place, and its column.
Tree(place) ==
    CASE place = "output" -> output
      [] place = "result" -> Branch(<<output, output>>)
      [] place = "event"  -> Branch(<<Hidden, Shown>>)
      [] OTHER            -> State

Column(place) == IF place \in {"output", "result", "event"} THEN place ELSE "state"

-----------------------------------------------------------------------------
(* The run                                                                 *)

Goto(place) == pc' = place

\* The worker is back in its loop, or gone.
Leave ==
    /\ Goto("idle")
    /\ local' = Fresh(None)
    /\ turn' = 0
    /\ said' = << >>
    /\ output' = None
    /\ writing' = None

ClaimRun ==
    /\ pc = "idle" /\ status = "queued"
    /\ status' = "running"
    /\ Goto("load")
    /\ UNCHANGED <<config, limit, step, row, files, nodeVars, writing, history>>

\* A file that is gone raises an error outside the handler that fails the
\* run: the worker leaves it as it is.
LoadRun ==
    /\ pc = "load"
    /\ IF \A c \in {"input", "state"} : row[c] # None => Readable(row[c], files)
       THEN /\ local' = IF row["state"] = None
                        THEN Fresh(Materialised(row["input"], files))
                        ELSE Restored(Materialised(row["state"], files))
            /\ Goto("start")
            /\ UNCHANGED <<turn, said, output, writing>>
       ELSE Leave
    /\ UNCHANGED <<runVars, history>>

\* The control check: a pause that was requested.
CheckControl ==
    /\ pc = "control"
    /\ IF status = "pause_requested"
       THEN status' = "paused" /\ Goto("parked")
       ELSE UNCHANGED status /\ Goto("begin")
    /\ UNCHANGED <<config, limit, step, row, files, nodeVars, writing, history>>

PollResumed ==
    /\ pc = "parked" /\ status = "queued"
    /\ status' = "running"
    /\ Goto("begin")
    /\ UNCHANGED <<config, limit, step, row, files, nodeVars, writing, history>>

RequestPause ==
    /\ status \in {"queued", "running"}
    /\ pauses < MaxPauses
    /\ status' = IF status = "queued" THEN "paused" ELSE "pause_requested"
    /\ pauses' = pauses + 1
    /\ UNCHANGED <<config, limit, step, row, files, pc, nodeVars, writing, happened, calls, wrote,
                   full, excused, crashes>>

ResumeRun ==
    /\ status = "paused"
    /\ status' = "queued"
    /\ UNCHANGED <<config, limit, step, row, files, pc, nodeVars, writing, history>>

\* The process stops or dies: a run that is not parked has lost its worker.
Die ==
    /\ pc # "idle"
    /\ crashes < MaxCrashes
    /\ crashes' = crashes + 1
    /\ excused' = (excused \/ pc # "parked")
    /\ Leave
    /\ UNCHANGED <<runVars, happened, calls, wrote, full, pauses>>

\* The directory of the artifacts is emptied.
LoseFiles ==
    /\ "lost" \in Faults
    /\ \E k \in DOMAIN files : files[k] # Gone
    /\ files' = [k \in DOMAIN files |-> Gone]
    /\ excused' = TRUE
    /\ UNCHANGED <<config, limit, status, step, row, pc, nodeVars, writing, happened, calls, wrote,
                   full, pauses, crashes>>

-----------------------------------------------------------------------------
(* The node                                                                *)

\* What the worker hears from a tool or a model.
Hear(leaf) ==
    /\ said' = Append(said, leaf)
    /\ happened' = Append(happened, leaf)
    /\ local' = CASE config.kind = "agent"  -> [local EXCEPT !.memory = Append(@, leaf)]
                  [] config.kind = "prompt" -> local
                  [] config.kind = "tool"   -> [local EXCEPT !.attempts = 0]

\* The place of the agent's turn t: its next tool, or its last draft.
Turn(t) == CASE t >= config.turns -> "reflect"
             [] t < config.turns /\ t < config.tools -> "call"
             [] OTHER -> "generate"

\* Mutant: an attempt starts with an empty memory.
BeginForgetful ==
    /\ pc = "begin"
    /\ step' = "running"
    /\ local' = [local EXCEPT !.memory = << >>]
    /\ turn' = 0
    /\ said' = << >>
    /\ Goto(IF config.kind = "agent" THEN Turn(0) ELSE "generate")
    /\ UNCHANGED <<config, limit, status, row, files, output, writing, history>>

BeginNode ==
    /\ pc = "begin"
    /\ step' = "running"
    /\ turn' = 0
    /\ said' = << >>
    /\ Goto(CASE config.kind = "tool" -> "call"
              [] config.kind = "prompt" -> "generate"
              [] config.kind = "agent" -> Turn(0))
    /\ UNCHANGED <<config, limit, status, row, files, local, output, writing, history>>

NodeStep ==
    UNCHANGED <<config, limit, status, row, files, writing, wrote, full, excused, pauses, crashes>>

\* A tool may fail after it has done its work.
CallTool ==
    /\ pc = "call"
    /\ calls' = [calls EXCEPT ![turn + 1] = @ + 1]
    /\ \/ \E out \in ToolOutputs :
            /\ Hear(out)
            /\ IF config.kind = "tool"
               THEN output' = out /\ Goto("output")
               ELSE UNCHANGED output /\ Goto(IF IsJson(out) THEN "generate" ELSE "fail")
       \/ Goto("fail") /\ UNCHANGED <<said, happened, local, output>>
    /\ UNCHANGED <<step, turn>>
    /\ NodeStep

\* The agent drafts an answer, and stops after the draft that no tool precedes.
Generate ==
    /\ pc = "generate"
    /\ \/ \E draft \in Drafts :
            /\ Hear(draft)
            /\ output' = draft
            /\ turn' = turn + 1
            /\ Goto(CASE config.kind = "prompt" -> "guard"
                      [] config.kind = "agent" /\ turn < config.tools -> Turn(turn + 1)
                      [] OTHER -> "reflect")
       \/ Goto("fail") /\ UNCHANGED <<said, happened, local, output, turn>>
    /\ UNCHANGED <<step, calls>>
    /\ NodeStep

\* The empty text.
Empty == Leaf("empty", 1)

\* The answer is the last draft, or what a reflection makes of it.
Reflect ==
    /\ pc = "reflect"
    /\ IF config.reflects
       THEN \/ \E draft \in Drafts : output' = draft /\ Goto("guard")
            \/ Goto("fail") /\ UNCHANGED output
       ELSE /\ output' = IF turn = 0 THEN Empty ELSE output
            /\ Goto("guard")
    /\ UNCHANGED <<step, local, turn, said, happened, calls>>
    /\ NodeStep

\* Mutant: the guardrails look at the last draft and not at its reflection.
ObjectionToDraft == said # << >> /\ said[Len(said)].data \in Unfit

Objection == output.data \in Unfit

Canned == Leaf("fallback_response", 1)

\* The output of a prompt or an agent with this response.
Reply(response) == IF config.kind = "agent"
                   THEN Branch(<<Branch(said), Branch(local.memory), response>>)
                   ELSE response

\* The guardrails: an answer they object to is replaced, or is an error.
ApplyGuardrails ==
    /\ pc = "guard"
    /\ IF config.guarded /\ Objection /\ ~config.fallback
       THEN Goto("fail") /\ UNCHANGED <<local, output>>
       ELSE /\ output' = Reply(IF config.guarded /\ Objection THEN Canned ELSE output)
            /\ local' = [local EXCEPT !.attempts = 0]
            /\ Goto("output")
    /\ UNCHANGED <<step, turn, said, happened, calls>>
    /\ NodeStep

\* An attempt failed: it is repeated, or its fallback output stands in for it.
AttemptFails ==
    /\ pc = "fail"
    /\ CASE local.attempts + 1 < config.attempts ->
                /\ local' = [local EXCEPT !.attempts = @ + 1]
                /\ Goto("retry")
                /\ UNCHANGED output
         [] local.attempts + 1 >= config.attempts /\ config.stand_in ->
                /\ local' = [local EXCEPT !.attempts = @ + 1]
                /\ output' = StandIn
                /\ Goto("output")
         [] OTHER -> Goto("bury") /\ UNCHANGED <<local, output>>
    /\ UNCHANGED <<step, turn, said, happened, calls>>
    /\ NodeStep

-----------------------------------------------------------------------------
(* Storing                                                                 *)

After(place) ==
    CASE place \in {"start", "retry"} -> "control"
      [] place = "output" -> "save"
      [] place = "save"   -> "result"
      [] place = "result" -> "event"

FailedIn(places) ==
    IF pc \in places
    THEN /\ Goto("bury")
         /\ writing' = None
         /\ UNCHANGED nodeVars
    ELSE Leave

\* Mutant: an error in the handler of a failed attempt is not caught.
StoringFailsInHandler == FailedIn(Saving \ {"start", "retry"})

\* An error while storing fails the run, but not before it has started.
StoringFails == FailedIn(Saving \ {"start"})

\* Some of the files are written before the disk is full.
DiskFull(stored) ==
    /\ "full" \in Faults
    /\ \E n \in 0..(Len(stored.files) - 1) : files' = files \o SubSeq(stored.files, 1, n)
    /\ full' = TRUE

WriteFiles ==
    /\ pc \in Saving /\ writing = None
    /\ LET stored == Prepared(Tree(pc), Len(files), limit)
       IN  \/ /\ files' = files \o stored.files
              /\ writing' = stored.value
              /\ UNCHANGED <<pc, nodeVars, full, excused>>
           \/ DiskFull(stored) /\ StoringFails /\ excused' = (excused \/ pc = "start")
    /\ UNCHANGED <<config, limit, status, step, row, happened, calls, wrote, pauses, crashes>>

\* A JSON column refuses what JSON cannot express.
RefuseRow ==
    /\ pc \in Saving /\ writing # None
    /\ ~IsJson(writing)
    /\ StoringFails
    /\ UNCHANGED <<config, limit, status, step, row, files, history>>

\* The row is written: with the output the step's status, and with the result
\* the run's, which leaves no state behind.  The last event is a row as well.
WriteRow ==
    /\ pc \in Saving /\ writing # None
    /\ IsJson(writing)
    /\ wrote' = [wrote EXCEPT ![Column(pc)] = Tree(pc)]
    /\ row' = [row EXCEPT ![Column(pc)] = writing, !["state"] = IF pc = "result" THEN None
                          ELSE IF Column(pc) = "state" THEN writing ELSE @]
    /\ step' = IF pc = "output" THEN "succeeded" ELSE step
    /\ status' = IF pc = "result" THEN "succeeded" ELSE status
    /\ IF pc = "event"
       THEN Leave
       ELSE Goto(After(pc)) /\ writing' = None /\ UNCHANGED nodeVars
    /\ UNCHANGED <<config, limit, files, happened, calls, full, excused, pauses, crashes>>

-----------------------------------------------------------------------------
(* The end of a run that failed                                            *)

FailStep ==
    /\ pc = "bury"
    /\ step' = IF step = "running" THEN "failed" ELSE step
    /\ Goto(IF step = "running" THEN "letter" ELSE "end")
    /\ UNCHANGED <<config, limit, status, row, files, nodeVars, writing, history>>

\* The dead letter holds the input; an error here leaves the run as it is.
CreateDeadLetter ==
    /\ pc = "letter"
    /\ LET stored == Prepared(Branch(<<local.input>>), Len(files), limit)
       IN  \/ /\ files' = files \o stored.files
              /\ Goto("end")
              /\ UNCHANGED <<nodeVars, writing, full, excused>>
           \/ DiskFull(stored) /\ Leave /\ excused' = TRUE
    /\ UNCHANGED <<config, limit, status, step, row, happened, calls, wrote, pauses, crashes>>

\* The run fails, also one that has succeeded and could not say so.
FailRun ==
    /\ pc = "end"
    /\ status' = "failed"
    /\ row' = [row EXCEPT !["state"] = None, !["result"] = None]
    /\ Leave
    /\ UNCHANGED <<config, limit, step, files, history>>

-----------------------------------------------------------------------------
Next ==
    \/ ClaimRun \/ LoadRun \/ CheckControl \/ PollResumed
    \/ BeginNode \/ CallTool \/ Generate \/ Reflect \/ ApplyGuardrails \/ AttemptFails
    \/ WriteFiles \/ WriteRow \/ RefuseRow
    \/ FailStep \/ CreateDeadLetter \/ FailRun
    \/ RequestPause \/ ResumeRun \/ Die \/ LoseFiles

Spec == Init /\ [][Next]_vars

-----------------------------------------------------------------------------
(* Properties                                                              *)

\* What the values are, modulo what JSON makes of them.
TypeOK ==
    /\ config \in Configs /\ limit \in Limits
    /\ status \in {"queued", "running", "pause_requested", "paused", "succeeded", "failed"}
    /\ step \in {"pending", "running", "succeeded", "failed"}
    /\ DOMAIN row = Columns /\ DOMAIN wrote = Columns
    /\ pc \in Places
    /\ local.attempts \in 0..config.attempts
    /\ turn \in Nat

\* An agent knows all that it has heard: whatever failed, was repeated, was
\* paused and taken up by another worker, every worker that executes the node
\* has in its memory what tools and models said in all attempts, in order.
MemoryIsKept ==
    config.kind = "agent" /\ pc \notin {"idle", "load"} =>
        Written(Branch(local.memory)) = Written(Branch(happened))

\* The response of a step that succeeded is one that the guardrails accept, or
\* a fallback of the node's configuration: reflections and repeated attempts
\* included.
Response(p) == IF IsBranch(p) THEN p.items[3] ELSE p

ResponseIsGuarded ==
    step = "succeeded" /\ config.guarded /\ config.kind # "tool" =>
        Response(wrote["output"]).data \notin Unfit

\* A tool has side effects: each tool of an agent is called at most once in
\* every attempt, after the tools before it, and repeated by no pause, so that
\* there are no more calls than the node has attempts.
CallsAreCounted ==
    \A t \in DOMAIN calls :
        /\ calls[t] <= config.attempts
        /\ t > 1 => calls[t] <= calls[t - 1]

\* What is in a row is within the limit or a file, and every reference in a
\* row leads to the payload that was stored: unless the files were lost, what
\* is read back is what was written.
StoredIsWhole ==
    \A c \in Columns : row[c] # None =>
        /\ Fits(row[c], limit) \/ IsReference(row[c])
        /\ Readable(row[c], files) =>
               Written(Materialised(row[c], files)) = Written(wrote[c])
        /\ ~excused => Readable(row[c], files)

\* A run ends, and as its step does.  One that no worker executes is not left
\* as running, also when its payloads are not JSON or the disk is full: only a
\* process that died, a disk that was full before the run or its dead letter
\* was written, and files that were lost strand it.  And it fails although its
\* step succeeded, even after it has succeeded itself, only when the disk was
\* full or data that JSON cannot express came from a tool.
RunEndsWithItsStep ==
    /\ pc = "idle" /\ status \in {"running", "pause_requested"} => excused
    /\ status = "succeeded" => step = "succeeded"
    /\ status = "failed" /\ step = "succeeded" =>
           full \/ \E i \in DOMAIN happened : ~IsJson(happened[i])
=============================================================================
