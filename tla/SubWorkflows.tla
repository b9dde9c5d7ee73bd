---------------------------- MODULE SubWorkflows ----------------------------
(***************************************************************************)
(* WorkflowEngine with nodes that call other workflows: a sub_workflow     *)
(* node calls one once, a for_each node once for every item.  A called     *)
(* workflow is executed inside the call by an engine of its own, with a    *)
(* context of its own that nothing saves, and may call further ones: a     *)
(* stack of frames.  What an inner node raises, be it a failure or a       *)
(* request for approval, unwinds the stack to the node of the run.         *)
(*                                                                         *)
(* Inner nodes have a retry policy as others do, and nothing reads it.  A  *)
(* node of a called workflow and one of the run that have the same name    *)
(* here have the same id.                                                  *)
(***************************************************************************)
EXTENDS WorkflowEngine, SequencesExt

CONSTANTS
    Libraries,  \* the libraries considered: functions from names to workflows
    ValidNames, \* the names of workflows that the validator accepts
    MaxDepth    \* the calls that fit on the stack of a Python thread

ASSUME LibrariesAssumption ==
    /\ MaxDepth \in Nat \ {0}
    /\ ValidNames \subseteq Names
    /\ \A lib \in Libraries :
        /\ DOMAIN lib \subseteq Names
        /\ \A name \in DOMAIN lib : lib[name] \in Chart

VARIABLES
    library,  \* the workflows that can be called
    frames,   \* the calls that are active, the innermost last
    outcome,  \* of the call of the current node: "none" yet, "returned",
              \* "raised" or "asked" for an approval
    asker     \* the inner node that asked, 0 for none

subVars == <<library, frames, outcome, asker>>
allVars == <<vars, subVars>>

\* A frame: the workflow it executes, which of how many calls it is, the node
\* that is executed, 0 between nodes, the edges still to be followed, and the
\* variables of _execute_inline_workflow.
Frame == [name     : Names,
          item     : Nat,
          of       : Nat,
          node     : Nodes \union {0},
          fan      : SUBSET Nat,
          queue    : Seq(Nodes),
          enqueued : SUBSET Nodes,
          executed : SUBSET Nodes,
          tokens   : [Nodes -> Nat],
          route    : [Nodes -> Routes \union {NoRoute}]]

SubTypeOK ==
    /\ TypeOK
    /\ \A i \in DOMAIN frames : frames[i] \in Frame
    /\ Len(frames) <= MaxDepth
    /\ outcome \in {"none", "returned", "raised", "asked"}
    /\ asker \in Nodes \union {0}

Calls(w) == Range(w.calls) \ {Nobody}

SubInit ==
    /\ Init
    /\ library \in Libraries
    /\ (Calls(wf) = {}) = (DOMAIN library = {})
    /\ Calls(wf) \subseteq DOMAIN library
    /\ frames = << >>
    /\ outcome = "none"
    /\ asker = 0

-----------------------------------------------------------------------------
(* Frames                                                                  *)

Top        == frames[Len(frames)]
SetTop(f)  == frames' = [frames EXCEPT ![Len(frames)] = f]
Body(f)    == library[f.name]

\* The roots are sorted by their ids, which may be any order of the plan's.
NewFrame(name, item, of) ==
    {[name |-> name, item |-> item, of |-> of, node |-> 0, fan |-> {},
      queue |-> order, enqueued |-> Range(order), executed |-> {},
      tokens |-> [n \in Nodes |-> 0], route |-> [n \in Nodes |-> NoRoute]] :
     order \in SetToSeqs(Range(library[name].roots))}

\* The frame after its node has produced an output with route r.
Executed(f, r) == [f EXCEPT !.executed = @ \union {f.node}, !.route[f.node] = r, !.node = 0,
                            !.fan = Selected(Body(f), f.node, r)]

-----------------------------------------------------------------------------
(* Calls                                                                   *)

AtCall     == phase = "exec" /\ wf.calls[current] # Nobody
InCall     == AtCall /\ frames # << >>
CallBegins == AtCall /\ frames = << >> /\ outcome = "none"

\* An exception leaves all frames.
Unwind(how, n) ==
    /\ frames' = << >>
    /\ outcome' = how
    /\ asker' = n
    /\ UNCHANGED <<vars, library>>

Push(stack, name, item, of) ==
    IF name \in DOMAIN library \cap ValidNames /\ Len(stack) < MaxDepth
    THEN /\ \E f \in NewFrame(name, item, of) : frames' = Append(stack, f)
         /\ UNCHANGED <<vars, library, outcome, asker>>
    ELSE Unwind("raised", 0)

\* The node that made the last call of this stack has all its results.
Return(stack) ==
    IF stack = << >>
    THEN /\ frames' = << >>
         /\ outcome' = "returned"
         /\ UNCHANGED <<vars, library, asker>>
    ELSE /\ frames' = [stack EXCEPT ![Len(stack)] = Executed(@, NoRoute)]
         /\ UNCHANGED <<vars, library, outcome, asker>>

\* A node calls a workflow, for the first of its items if there are any.
Call(w, n) ==
    \E k \in w.times[n] :
        IF k = 0 THEN Return(frames) ELSE Push(frames, w.calls[n], 1, k)

RunCalls   == CallBegins /\ Call(wf, current)
CallFails  == CallBegins /\ Unwind("raised", 0)

\* Mutant: a join starts with its first input.
InlineReadyAtOnce(c, n, tokens) == TRUE

InlineReady(c, n, tokens) == n \in c.joins => tokens >= c.need[n]

\* The edges that the last output selected are followed in turn.
InlineFollows ==
    /\ InCall
    /\ \E i \in Top.fan :
        /\ \A j \in Top.fan : Before(Body(Top), i, j)
        /\ LET n      == Body(Top).edges[i].to
               tokens == Top.tokens[n] + (IF n \in Body(Top).joins THEN 1 ELSE 0)
               enter  == /\ InlineReady(Body(Top), n, tokens)
                         /\ n \notin Top.executed \union Top.enqueued
           IN  SetTop([Top EXCEPT
                    !.fan = @ \ {i},
                    !.tokens[n] = tokens,
                    !.queue = IF enter THEN Append(@, n) ELSE @,
                    !.enqueued = IF enter THEN @ \union {n} ELSE @])
    /\ UNCHANGED <<vars, library, outcome, asker>>

\* The loop of the frame is at its head.
AtHead == InCall /\ Top.node = 0 /\ Top.fan = {}

InlineTakes ==
    /\ AtHead /\ Top.queue # << >>
    /\ LET n == Head(Top.queue)
           f == [Top EXCEPT !.queue = Tail(@), !.enqueued = @ \ {n}]
       IN  SetTop(IF n \in Top.executed THEN f ELSE [f EXCEPT !.node = n])
    /\ UNCHANGED <<vars, library, outcome, asker>>

Inner(kind) ==
    /\ InCall /\ Top.node # 0
    /\ kind = IF Top.node \in Body(Top).approvals THEN "approval"
              ELSE IF Body(Top).calls[Top.node] # Nobody THEN "call" ELSE "plain"

InlineSucceeds ==
    /\ Inner("plain")
    /\ \E r \in Body(Top).routes[Top.node] : SetTop(Executed(Top, r))
    /\ UNCHANGED <<vars, library, outcome, asker>>

\* Whatever the node, it can fail before it does anything else.
InlineFails == InCall /\ Top.node # 0 /\ Unwind("raised", 0)

InlineCalls == Inner("call") /\ Call(Body(Top), Top.node)

\* The context of a frame knows no decisions: an approval node always asks.
InlineAsks == Inner("approval") /\ Unwind("asked", Top.node)

\* The queue of the frame is empty: it returns, and the next item follows.
InlineReturns ==
    /\ AtHead /\ Top.queue = << >>
    /\ IF Top.item < Top.of THEN Push(Front(frames), Top.name, Top.item + 1, Top.of)
                         ELSE Return(Front(frames))

Inline == RunCalls \/ CallFails \/ InlineFollows \/ InlineTakes \/ InlineSucceeds
            \/ InlineFails \/ InlineCalls \/ InlineAsks \/ InlineReturns

-----------------------------------------------------------------------------
(* The node of the run                                                     *)

\* The outcome of a call is forgotten with the call; the task that an inner
\* node asked for is pending while the run waits.
Forget ==
    /\ outcome' = IF AtCall /\ phase' = "exec" THEN outcome ELSE "none"
    /\ asker' = IF (AtCall /\ phase' = "exec") \/ status' = "waiting_human" THEN asker ELSE 0
    /\ UNCHANGED <<library, frames>>

CallEnds ==
    \/ outcome = "returned" /\ NodeSucceeds
    \/ outcome = "raised" /\ (NodeRetries \/ NodeFallsBack \/ NodeFails)
    \/ outcome = "asked" /\ Wait

\* The task names the inner node, and so does the decision in the context.
DecideInner ==
    /\ status = "waiting_human" /\ phase = "off" /\ asker # 0
    /\ \E r \in {"approved", "rejected"} : saved' = [saved EXCEPT !.decision[asker] = r]
    /\ status' = "queued"
    /\ UNCHANGED <<wf, phase, current, fan, local, results, steps, output, source, retries>>

SubWork == \/ Inline
           \/ ~AtCall /\ Work /\ Forget
           \/ CallBegins /\ CredentialFails /\ Forget
           \/ AtCall /\ CallEnds /\ Forget

SubDecide == ((asker = 0 /\ Decide) \/ DecideInner) /\ Forget

SubNext == \/ SubWork
           \/ SubDecide
           \/ (ResumePaused \/ RequestCancel \/ RetryFromFailedStep) /\ Forget

SubSpec == SubInit /\ [][SubNext]_allVars

FairSubSpec == SubSpec /\ WF_allVars(SubWork) /\ WF_allVars(SubDecide)

-----------------------------------------------------------------------------
(* Properties                                                              *)

\* The inline engine is a second copy of the engine: it executes what
\* Activation says, and a call returns when nothing is left to execute.
Inlined(f) == INSTANCE Activation WITH
    wf       <- Body(f),
    starts   <- Range(Body(f).roots),
    executed <- f.executed,
    route    <- f.route,
    ended    <- "no"

InlineAgrees ==
    \A i \in DOMAIN frames :
        LET f == frames[i]
        IN  /\ f.executed \union ({f.node} \ {0}) \subseteq
                   {n \in Nodes : Inlined(f)!Activated(n)}
            /\ f.node = 0 /\ f.fan = {} /\ f.queue = << >> =>
                   \A n \in Nodes : Inlined(f)!Activated(n) => n \in f.executed

\* A run that is queued ends, or its process stops while it is paused, unless
\* a workflow it calls asks for an approval: that decision never reaches the
\* node that asked, which asks again.  Workflows that call themselves end too.
AsksInside == \E name \in DOMAIN library : library[name].approvals # {}

CallingRunEnds ==
    status = "queued" /\ ~AsksInside ~> status \in Ended \union {"paused"}
=============================================================================
