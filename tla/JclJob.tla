------------------------------- MODULE JclJob -------------------------------
(***************************************************************************)
(* IRXJCL: one exec per job step or per TSO command, as a C program        *)
(* (src/src/irx#jcl.c) or as the load module (asm/irxjcl.asm).  It runs in *)
(* the environment it finds or, if there is none, in one of its own; under *)
(* TSO the wrapper of the TMP has made one (asm/irxtmpw.asm).              *)
(***************************************************************************)
EXTENDS ExecRun

CONSTANTS
    Parms,        \* records [member : Boolean, exec], what IRXJCL is called with
    MaxJobs       \* bound: calls of IRXJCL

VARIABLES
    env,          \* "none", "found" (it was there) or "own" (IRXJCL's)
    job           \* [step, via, lost, before, said, rc, count]

vars == <<runvars, env, job>>

NoEnv == NewWorkBlock(FALSE)

\* "module" is the load module, "c" the C program.
Init ==
    /\ library \in Libraries
    /\ levels = <<>> /\ held = {} /\ shortages = 0 /\ nested = 0
    /\ env = "none" /\ wb = NoEnv
    /\ job = [step |-> "logon", via |-> "c", lost |-> {}, before |-> "none", said |-> {}, rc |-> 0, count |-> 0]

JobIdle == job.step = "idle"
Finish(rc) == job' = [job EXCEPT !.step = "ending", !.rc = rc]

\* The TMP's wrapper makes an environment if it can; TSO starts anyway.  A batch
\* job has no wrapper.
Logon ==
    /\ job.step = "logon"
    /\ job' = [job EXCEPT !.step = "idle"]
    /\ \/ env' = "found" /\ \E b \in BOOLEAN : wb' = NewWorkBlock(b)
       \/ UNCHANGED <<env, wb>>
    /\ UNCHANGED loadvars /\ UNCHANGED nested

\* What IRXJCL calls IRXEXEC with.
OwnCall == [list |-> TRUE, env |-> "ok", inst |-> "ok", exec |-> "none", subcom |-> FALSE,
            eval |-> TRUE]

\* A call of IRXJCL.  lost: the modules a LOAD of the load module will not find.
Called(via, lost) ==
    [job EXCEPT !.via = via, !.said = {}, !.before = env, !.count = @ + 1,
                !.lost = IF via = "module" THEN lost ELSE {}]

\* No exec is run; one is.
Refused(j, rc) ==
    job' = [j EXCEPT !.step = "ending", !.rc = rc] /\ UNCHANGED <<env, wb, levels>>
Runs(j, e, reader) ==
    job' = [j EXCEPT !.step = "run"] /\ levels' = <<Level("load", e, reader, OwnCall)>>

\* The parameter, and the environment.
JclStart ==
    /\ JobIdle /\ job.count < MaxJobs
    /\ \E p \in Parms, via \in {"c", "module"}, b \in BOOLEAN,
         lost \in {{}, {"IRXINIT"}, {"IRXEXEC"}, {"IRXTERM"}} :
          LET j == Called(via, lost)
              reader == IF via = "module" THEN "bpam" ELSE "stdio"
              noenv == "IRXINIT" \in j.lost IN
          /\ via = "c" => lost = {}
          /\ \/ ~p.member /\ Refused(j, 20021) /\ UNCHANGED shortages
             \/ p.member /\ noenv /\ Refused(j, 28) /\ UNCHANGED shortages
             \/ /\ p.member /\ ~noenv /\ env = "found"
                /\ Runs(j, p.exec, reader) /\ UNCHANGED <<env, wb, shortages>>
             \/ /\ p.member /\ ~noenv /\ env = "none"
                /\ \/ /\ Runs(j, p.exec, reader)
                      /\ env' = "own" /\ wb' = NewWorkBlock(b) /\ UNCHANGED shortages
                   \/ /\ Refused(j, 28)
                      /\ shortages < MaxShort /\ shortages' = shortages + 1
    /\ UNCHANGED <<library, held, nested>>

\* The exec of the job step itself.
Mainline(step) == Depth = 1 /\ At(step)

\* The messages of a failed load, and the error number if one is 0005.
LoadMessages(rc) ==
    (IF rc = "NOTFOUND" THEN {"0406"} ELSE IF rc = "NOMEM" THEN {"0005"} ELSE {})
    \cup {"0110", "0112"}

JclLoaded ==
    /\ Mainline("loaded")
    /\ \/ /\ Top.loadrc = "OK" /\ "IRXEXEC" \notin job.lost
          /\ GoTo("dispatch")
          /\ UNCHANGED <<job, wb, held>>
       \/ /\ Top.loadrc = "OK" /\ "IRXEXEC" \in job.lost
          /\ FreeInstblk /\ levels' = <<>>
          /\ job' = [job EXCEPT !.step = "ending", !.rc = 20, !.said = {"0110"}]
          /\ UNCHANGED wb
       \/ /\ Top.loadrc # "OK"
          /\ levels' = <<>>
          /\ job' = [job EXCEPT !.step = "ending", !.rc = 20, !.said = LoadMessages(Top.loadrc)]
          /\ wb' = IF Top.loadrc = "NOMEM" /\ job.via = "c"
                   THEN [wb EXCEPT !.error = SYNTAX_STORAGE] ELSE wb
          /\ UNCHANGED held
    /\ UNCHANGED <<library, shortages, nested, env>>

\* FC=FREE after IRXEXEC.
JclFree ==
    /\ Mainline("returned")
    /\ FreeInstblk
    /\ levels' = <<>>
    /\ Finish(Top.result)
    /\ UNCHANGED <<library, shortages, wb, nested, env>>

\* An environment of its own is terminated.  If IRXTERM cannot be loaded, it
\* stays, and later calls find it.
EndsOwn(e, lost) == CASE e # "own" -> e
                      [] "IRXTERM" \in lost -> "found"
                      [] OTHER -> "none"

\* IRXTERM of an own environment.
JclEnd ==
    /\ job.step = "ending"
    /\ env' = EndsOwn(env, job.lost)
    /\ wb' = IF env' = "none" THEN NoEnv ELSE wb
    /\ job' = [job EXCEPT !.step = "idle"]
    /\ UNCHANGED loadvars /\ UNCHANGED nested

Next ==
    \/ Logon \/ JclStart \/ JclLoaded \/ JclFree \/ JclEnd
    \/ (LoadNext /\ UNCHANGED <<wb, nested, env, job>>)
    \/ (RunNext /\ UNCHANGED <<env, job>>)

Spec == Init /\ [][Next]_vars

-----------------------------------------------------------------------------
(* What a job promises.                                                    *)

\* Whatever step of whatever exec failed: nothing a level got is held when it
\* has ended, and after IRXJCL there is the environment there was before.
GivenBack ==
    /\ NothingLeft
    /\ JobIdle /\ "IRXTERM" \notin job.lost => env = job.before \/ job.count = 0

=============================================================================
