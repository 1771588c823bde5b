------------------------------ MODULE MCReplay ------------------------------
(* Closures over one dynamic job j and one deployment d of the definition.  *)
EXTENDS Replay

CONSTANTS j, d

C(op, res, lit) == [op |-> op, res |-> res, lit |-> lit, on |-> 0,
                    state |-> "Terminated", dl |-> None, catch |-> FALSE]
Await_(on, res, state, dl) == [C("await", res, "") EXCEPT !.on = on, !.state = state,
                                                          !.dl = dl]
Caught(c) == [c EXCEPT !.catch = TRUE]
StopIn(res, dl) == [C("stop", res, "") EXCEPT !.dl = dl]

\* A job is waited for twice, with two equal signals around the second wait.
Job == <<C("start", j, ""), Await_(1, j, "Ready", 1), C("signal", j, "HUP"),
         Await_(1, j, "Terminated", 2), C("signal", j, "HUP")>>
\* The same closure after an edit: another first signal, and no second one.
JobEdited == [SubSeq(Job, 1, 4) EXCEPT ![3].lit = "TERM"]
\* The images are warmed, the deployment is stopped, exec'd into and started
\* again; the wait for it has no deadline and stands in a try block.
Swap == <<C("warm", d, ""), StopIn(d, 1), C("exec", d, "x"), C("start", d, ""),
          Caught(Await_(4, d, "Ready", None)), C("write", d, "f"), C("restart", d, "bump")>>
\* A sub-action and a wait.
Sub == <<C("call", d, "sub"), C("query", d, ""), Await_(2, d, "Ready", 1)>>

AllScripts == {Job, JobEdited, Swap, Sub}
=============================================================================
