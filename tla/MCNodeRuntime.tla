---------------------------- MODULE MCNodeRuntime ----------------------------
(* Instances of NodeRuntime for TLC. *)
EXTENDS NodeRuntime

Config(kind, tools, turns, attempts) ==
    [kind |-> kind, tools |-> tools, turns |-> turns, attempts |-> attempts,
     reflects |-> FALSE, guarded |-> FALSE, fallback |-> FALSE, stand_in |-> FALSE]

Guarded(c)   == [c EXCEPT !.guarded = TRUE]
Fallback(c)  == [Guarded(c) EXCEPT !.fallback = TRUE]
Reflects(c)  == [c EXCEPT !.reflects = TRUE]
StandsIn(c)  == [c EXCEPT !.stand_in = TRUE]

\* Agents with fewer and with more tools than turns, and with no turn at all.
MCConfigs ==
    {Config("tool", 1, 0, 2), StandsIn(Config("tool", 1, 0, 1)),
     Guarded(Config("prompt", 0, 0, 2)), StandsIn(Fallback(Config("prompt", 0, 0, 1))),
     Guarded(Config("agent", 1, 2, 2)), StandsIn(Config("agent", 2, 1, 2)),
     Config("agent", 2, 2, 1), Reflects(Guarded(Config("agent", 0, 1, 2))),
     Fallback(Reflects(Config("agent", 1, 1, 1))), Guarded(Config("agent", 1, 0, 1))}

\* A small input, and one with a part that is too large.
MCInputs == {Leaf("input", 1), Branch(<<Leaf("large", 6), Leaf("small", 1)>>)}

\* A row of a table, one with a binary column, and one with a long text as well.
MCToolOutputs == {Leaf("text", 2), Leaf("binary", 2),
                  Branch(<<Leaf("content", 8), Leaf("binary", 2)>>)}

MCData == {"input", "large", "small", "text", "binary", "binary as text", "content", "fit", "unfit",
           "book", "empty", "redacted", "fallback_output", "fallback_response"}

MCAsText == [binary |-> "binary as text"]

MCDrafts == {Leaf("fit", 2), Leaf("unfit", 2)}

\* No limit; one that a reference exceeds; one that some states exceed.
MCLimits == {0, 1, 9}

NoFault == {}
AllFaults == {"full", "lost"}
=============================================================================
