------------------------------ MODULE MCServer ------------------------------
(***************************************************************************)
(* Small instances of the components of the ACP server for TLC: its serve  *)
(* loop, the permission gate, the terminals and the file tools. They share *)
(* no state, so a behaviour here is one of one component, chosen at the    *)
(* start, with the others in their initial states.                         *)
(***************************************************************************)
EXTENDS Terminal, AcpServer, Permission, FileTools, TLC

CONSTANTS x1, x2, x3, r1, r2, r3, i1, i2, c1, c2, c3, k1, k2,
          f1, f2, f3, f4, f5

VARIABLE focus

vars == <<focus, terminalVars, serverVars, permissionVars, fileVars>>

\* One terminal writes enough to overflow its buffer.
MCMaxBytes == (x1 :> 3) @@ (x2 :> 0) @@ (x3 :> 0)

\* Two requests share their id, as those of two HTTP clients may.
MCIdOf == (r1 :> i1) @@ (r2 :> i1) @@ (r3 :> i2)

\* Two calls of one tool and one of another.
MCKeyOf == (c1 :> k1) @@ (c2 :> k1) @@ (c3 :> k2)

\* A reader, an editor and the writers there are.
MCToolOf ==
  (f1 :> "read_file") @@ (f2 :> "edit_file") @@ (f3 :> "overwrite")
    @@ (f4 :> "append") @@ (f5 :> "rewrite")

Components == {"terminal", "server", "permission", "files"}

Init ==
  /\ focus \in Components
  /\ TerminalInit
  /\ ServerInit
  /\ PermissionInit
  /\ FileInit
  /\ focus # "server" => transport = "stdio"

TerminalOnly ==
  focus = "terminal" /\ UNCHANGED <<focus, serverVars, permissionVars, fileVars>>

ServerOnly ==
  focus = "server" /\ UNCHANGED <<focus, terminalVars, permissionVars, fileVars>>

PermissionOnly ==
  focus = "permission" /\ UNCHANGED <<focus, terminalVars, serverVars, fileVars>>

FilesOnly ==
  focus = "files" /\ UNCHANGED <<focus, terminalVars, serverVars, permissionVars>>

Next ==
  \/ TerminalOnly /\ TerminalNext
  \/ ServerOnly /\ ServerNext
  \/ PermissionOnly /\ PermissionNext
  \/ FilesOnly /\ FileNext

Spec == Init /\ [][Next]_vars

\* terminal/wait_for_exit: the timer between two polls fires. Processes, readers
\* and clients owe nothing.
TerminalFairness == WF_vars(TerminalOnly /\ \E t \in Terminals : WaitPoll(t))

\* The serve loop's task is polled and its 200 ms timer fires; a notification it
\* has heard wakes it. Input and signals come from outside, requests may hang.
ServerFairness ==
  /\ WF_vars(ServerOnly /\ LoopStep)
  /\ WF_vars(ServerOnly /\ heard /\ LoopBreaks)

\* The future of a tool call is polled: a hook is killed after its time, the
\* client's time to answer is up, and a free lock is taken. What has no timer may
\* hang, and nothing is owed of a call that hangs. The client owes nothing.
PermissionFairness ==
  \A c \in ToolCalls : WF_vars(PermissionOnly /\ GateStep(c))

FairSpec == Spec /\ TerminalFairness /\ ServerFairness /\ PermissionFairness
=============================================================================
