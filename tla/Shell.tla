------------------------------- MODULE Shell -------------------------------
(***************************************************************************)
(* The programs of the RAMDISK on the kernel of module Process: init        *)
(* (user/main.c), the shell (user/sh.c), test2 and readtest.                *)
(*                                                                         *)
(* pc is the next process or console system call of each program; writing  *)
(* to the console and the file calls of test2 neither block nor touch the   *)
(* process table, so they are part of the way to that call.  What is typed  *)
(* is arbitrary: the shell's next call after a line, and what the word in   *)
(* it names, are free choices.  Leaving main() is exit (start.S).           *)
(***************************************************************************)
EXTENDS Process

CONSTANT Commands   \* the programs a line may name, of Programs

Programs == {"init", "sh", "test2", "readtest"}

ASSUME CommandsAssumption == Commands \subseteq Programs

VARIABLES
    pc,
    image   \* the pid of the process whose exec() loaded the memory a slot runs

shell_vars == <<vars, pc, image>>

Locations == {"init_fork", "init_exec", "init_wait",
              "sh_read", "sh_fork", "sh_exec", "sh_wait", "rt_read", "exit"}

\* Where a program first needs the kernel.
Entry(program) ==
    CASE program = "init" -> "init_fork"
      [] program = "sh" -> "sh_read"
      [] program = "test2" -> "exit"
      [] program = "readtest" -> "rt_read"

ShellInit ==
    /\ Init
    /\ pc = [i \in Slots |-> IF i = 0 THEN Entry("init") ELSE "exit"]
    /\ image = [i \in Slots |-> IF i = 0 THEN 1 ELSE 0]

-----------------------------------------------------------------------------
At(l) == mode = "user" /\ pc[current_proc] = l
Goto(l) == pc' = [pc EXCEPT ![current_proc] = l] /\ UNCHANGED image

\* fork(): the parent and the child go on behind the same call, in two copies
\* of the same memory.
ForkTo(mine, childs) ==
    /\ Fork
    /\ pc' = [pc EXCEPT ![current_proc] = mine, ![Min(FreeSlots)] = childs]
    /\ image' = [image EXCEPT ![Min(FreeSlots)] = image[current_proc]]

\* wait() returns the pid of the child it reaped, or an error.
WaitThen(l) ==
    \/ (WaitReap \/ WaitNoChild) /\ Goto(l)
    \/ WaitBlock /\ UNCHANGED <<pc, image>>

ReadThen(next) ==
    \/ ReadTake /\ \E l \in next : Goto(l)
    \/ ReadBlock /\ UNCHANGED <<pc, image>>

\* exec() of a program that is there: the same process at another entry.
ExecTo(l) ==
    /\ mode = "user"
    /\ pc' = [pc EXCEPT ![current_proc] = l]
    /\ image' = [image EXCEPT ![current_proc] = pid[current_proc]]
    /\ UNCHANGED vars

\* Mutant: the child goes on with the program it was forked from.
Bug_ExecFails(l) == mode = "user" /\ Goto(l) /\ UNCHANGED vars

\* exec() returned, or the name was too long: the child reports it and exits
\* instead of going on, to l.
ExecFails(l) == mode = "user" /\ Goto("exit") /\ UNCHANGED vars

-----------------------------------------------------------------------------
\* Mutant: init does not wait for the shell.
Bug_init_main ==
    \/ At("init_fork") /\ (ForkTo("exit", "init_exec") \/ (ForkAgain /\ Goto("exit")))
    \/ At("init_exec") /\ (ExecTo(Entry("sh")) \/ ExecFails("exit"))
    \/ At("init_wait") /\ WaitThen("exit")

\* main() of init: fork, exec the shell in the child, wait for it, return.
init_main ==
    \/ At("init_fork") /\ (ForkTo("init_wait", "init_exec") \/ (ForkAgain /\ Goto("exit")))
    \/ At("init_exec") /\ (ExecTo(Entry("sh")) \/ ExecFails("exit"))
    \/ At("init_wait") /\ WaitThen("exit")

\* A read ends with a piece of a line, an empty line or a bad exit (read
\* again), with exit, or with a command.
read_line == At("sh_read") /\ ReadThen({"sh_read", "exit", "sh_fork"})

\* Mutant: the shell goes back to its prompt at once.
Bug_sh_fork ==
    /\ At("sh_fork")
    /\ ForkTo("sh_read", "sh_exec") \/ (ForkAgain /\ Goto("sh_read"))

sh_fork ==
    /\ At("sh_fork")
    /\ ForkTo("sh_wait", "sh_exec") \/ (ForkAgain /\ Goto("sh_read"))

sh_exec ==
    /\ At("sh_exec")
    /\ (\E p \in Commands : ExecTo(Entry(p))) \/ ExecFails("sh_read")

sh_wait == At("sh_wait") /\ WaitThen("sh_read")

sh_main == read_line \/ sh_fork \/ sh_exec \/ sh_wait

\* readtest reads until the line q.
readtest_main == At("rt_read") /\ ReadThen({"rt_read", "exit"})

\* exit(), or the ecall behind main() in start.S.
Exits == At("exit") /\ exit_current /\ UNCHANGED <<pc, image>>

UserStep == init_main \/ sh_main \/ readtest_main \/ Exits

KernelStep ==
    /\ Tick \/ ExternalInterrupt \/ IdleService \/ TimerFires \/ Spin
    /\ UNCHANGED <<pc, image>>

ShellNext == UserStep \/ KernelStep

ShellSpec == ShellInit /\ [][ShellNext]_shell_vars

(***************************************************************************)
(* Fairness: the hardware's of module Process; and every process that gets *)
(* the hart again and again reaches its next system call, because between  *)
(* two calls these programs run only loops over short strings.  Nobody has *)
(* to type anything.                                                       *)
(***************************************************************************)
ShellFairSpec ==
    /\ ShellSpec
    /\ WF_shell_vars(TimerFires /\ UNCHANGED <<pc, image>>)
    /\ WF_shell_vars(Tick /\ UNCHANGED <<pc, image>>)
    /\ WF_shell_vars(stip /\ IdleService /\ UNCHANGED <<pc, image>>)
    /\ \A i \in Slots : SF_shell_vars(current_proc = i /\ UserStep)

-----------------------------------------------------------------------------
(* Properties.                                                             *)

Alive(i) == state[i] \notin {"UNUSED", "ZOMBIE"}
AliveAt(ls) == {i \in Slots : Alive(i) /\ pc[i] \in ls}

\* Only one process at a time reads fd 0: a shell does not while a program it
\* runs does, nested shells and an init started by hand included, however the
\* processes are scheduled.
OneReader == Cardinality(AliveAt({"sh_read", "rt_read"})) <= 1

\* No forked copy ever takes the place of a program: whoever prompts, runs
\* commands or waits for them was started as a shell itself, also when exec()
\* has failed in the child between the two.
OnlyShellsPrompt ==
    \A i \in AliveAt({"sh_read", "sh_fork", "sh_wait"}) : image[i] = pid[i]

\* A shell at its prompt has no child left in the process table, neither
\* running nor unreaped: commands do not use up slots.
PromptHasNoChildren ==
    \A i \in Slots : Alive(i) /\ pc[i] \in {"sh_read", "sh_fork", "exit"} => Children(i) = {}

\* These programs leave no orphans: while a process is in the table its
\* parent is alive, so a wait() will free its slot (nobody adopts orphans).
NobodyOrphaned ==
    \A i \in Slots : state[i] # "UNUSED" /\ pid[i] # 1 =>
        \E j \in ParentSlots(i) : Alive(j)

\* Commands and shells come and go without using up process slots.
NobodyLeftBehind == PromptHasNoChildren /\ NobodyOrphaned

\* The prompt comes back: a shell that waits for a command stops waiting,
\* unless a program reads the console and has to be told to end (or the pids
\* run out).
CommandReturns ==
    \A i \in Slots :
        pc[i] = "sh_wait" ~> \/ pc[i] # "sh_wait"
                             \/ AliveAt({"sh_read", "rt_read"}) # {}
                             \/ next_pid > MAX_PID

\* When the shell that init started ends, by exit or because it could not be
\* loaded, init ends too and the machine is shut down.
ExitHalts ==
    (\E i \in Slots : Alive(i) /\ pid[i] = 2 /\ pc[i] = "exit") ~> mode = "halted"

=============================================================================
