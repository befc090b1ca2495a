----------------------------- MODULE Processes -----------------------------
(***************************************************************************)
(* The Dos unit of the runtime: programs that are run and directories that *)
(* are searched.  Both report in the one global DosError, and the exit     *)
(* code of the last program stays in a global of its own.                  *)
(*                                                                         *)
(* The system around the program: what becomes of a program that is run,   *)
(* and files that others create and remove at any time.                    *)
(***************************************************************************)
EXTENDS Integers, Sequences, FiniteSets, SequencesExt

CONSTANTS Names,               \* files and directories there may be
          Directories,         \* those of them that are directories
          Ends,                \* what becomes of a program
          MaxCalls             \* bound: programs run and files removed or created

VARIABLES files,               \* the names that exist
          rec,                 \* the search record
          p_doserror, exit_code,
          search,              \* the search so far: matches, what was visited, what has vanished
          last,                \* how the last program ended
          calls

dosVars == <<files, rec, p_doserror, exit_code, search, last, calls>>

ENOENT == 2
NoMoreFiles == 18

(* How a program ends: it cannot be started (with an error of posix_spawnp, or
   found out by the child, which then exits with 127), exits, is killed by a
   signal, or cannot be waited for. *)
Exits(code) == [how |-> "exits", code |-> code]
Killed(signal) == [how |-> "killed", code |-> signal]
NotStarted(error) == [how |-> "not_started", code |-> error]
NotWaitedFor(error) == [how |-> "not_waited_for", code |-> error]
ASSUME ProcessesAssumption ==
  /\ IsFiniteSet(Names)
  /\ Ends \subseteq [how : {"exits", "killed", "not_started", "not_waited_for"}, code : Int]
Nothing == [how |-> "no_program", code |-> 0]

DosInit ==
  /\ files \in SUBSET Names /\ rec = [matches |-> <<>>, index |-> 1, name |-> "none"]
  /\ p_doserror = 0 /\ exit_code = 0
  /\ search = [matches |-> <<>>, visited |-> <<>>, gone |-> {}, on |-> FALSE]
  /\ last = Nothing /\ calls = 0

(* The error and the exit code a wait status leaves; an exit with 127 is taken
   for the child's failure to start the program. *)
store_wait_status(end) ==
    IF end.how = "killed" THEN [error |-> 0, code |-> 128 + end.code]
    ELSE IF end.code = 127 THEN [error |-> 8, code |-> 0]
    ELSE [error |-> 0, code |-> end.code]
spawn_process(args, end) ==
    IF args = <<>> \/ args[1] = <<>> THEN [error |-> ENOENT, code |-> 0]
    ELSE IF end.how \in {"not_started", "not_waited_for"} THEN [error |-> end.code, code |-> 0]
    ELSE store_wait_status(end)

(* ExecuteProcess leaves an empty command out and runs the first argument, Exec
   does not. *)
Arguments(how, command, rest) ==
    IF how = "executeprocess" /\ command = <<>> THEN rest ELSE <<command>> \o rest
Run(how, command, rest) ==
  \E end \in Ends :
    LET args == Arguments(how, command, rest)
        status == spawn_process(args, end)
    IN /\ calls < MaxCalls /\ calls' = calls + 1
       /\ p_doserror' = status.error /\ exit_code' = status.code
       /\ last' = IF args = <<>> \/ args[1] = <<>> THEN NotStarted(ENOENT) ELSE end
       /\ UNCHANGED <<files, rec, search>>

----------------------------------------------------------------------------
(* The record after a file's size, time and name are filled in: it keeps what
   it had when the file is gone. *)
fill(r, name) == IF name \in files THEN [r EXCEPT !.name = name] ELSE r

(* The matches come in no particular order. *)
FindFirst(directoriesOnly) ==
  \E matches \in SetToAllKPermutations(files) :
    /\ ToSet(matches) = IF directoriesOnly THEN files \cap Directories ELSE files
    /\ LET empty == [matches |-> matches, index |-> 1, name |-> "none"]
       IN rec' = IF matches = <<>> THEN empty ELSE fill(empty, matches[1])
    /\ p_doserror' = IF matches = <<>> THEN NoMoreFiles ELSE 0
    /\ search' = [matches |-> matches, gone |-> {}, on |-> matches # <<>>,
                  visited |-> IF matches = <<>> THEN <<>> ELSE <<rec'.name>>]
    /\ UNCHANGED <<files, exit_code, last, calls>>

\* Mutant: the last match is visited twice.
MoreLater == rec.index <= Len(rec.matches)
More == rec.index < Len(rec.matches)
FindNext ==
  /\ search.on
  /\ IF More
     THEN /\ rec' = fill([rec EXCEPT !.index = @ + 1], (Append(rec.matches, "none"))[rec.index + 1])
          /\ p_doserror' = 0
          /\ search' = [search EXCEPT !.visited = Append(@, rec'.name)]
     ELSE /\ p_doserror' = NoMoreFiles /\ UNCHANGED rec
          /\ search' = [search EXCEPT !.on = FALSE]
  /\ UNCHANGED <<files, exit_code, last, calls>>
FindClose ==
  /\ ~search.on
  /\ rec' = [rec EXCEPT !.matches = <<>>, !.index = 1]
  /\ UNCHANGED <<files, p_doserror, exit_code, search, last, calls>>

Appear(name) ==
  /\ name \notin files /\ calls < MaxCalls
  /\ files' = files \cup {name} /\ calls' = calls + 1
  /\ UNCHANGED <<rec, p_doserror, exit_code, search, last>>
Vanish(name) ==
  /\ name \in files /\ calls < MaxCalls
  /\ files' = files \ {name} /\ calls' = calls + 1
  /\ search' = [search EXCEPT !.gone = @ \cup {name}]
  /\ UNCHANGED <<rec, p_doserror, exit_code, last>>

DosNext ==
  \/ \E how \in {"executeprocess", "exec"}, command \in {<<>>, <<"a">>} :
       \E rest \in {<<>>, << <<"b">> >>} : Run(how, command, rest)
  \/ \E directoriesOnly \in BOOLEAN : FindFirst(directoriesOnly)
  \/ FindNext
  \/ FindClose
  \/ \E name \in Names : Appear(name) \/ Vanish(name)

----------------------------------------------------------------------------
(* DosError and the exit code tell of the last program that was run, and of no
   program before it, through any searches between: no error means it ran and
   ended with that status.  A program that itself exits with 127 is told from
   none as little as the code does.  (tp2cc_spawn_process, p_executeprocess.) *)
StatusIsOfTheLastProgram ==
  /\ last.how = "exits" => exit_code = IF last.code = 127 THEN 0 ELSE last.code
  /\ last.how = "killed" => exit_code = 128 + last.code
  /\ last.how \in {"not_started", "not_waited_for", "no_program"} => exit_code = 0

(* A loop of FindFirst and FindNext makes one visit for each file there was when
   it began, in their order, and each visit is to that file unless it has
   vanished in the meantime, whatever programs ran and files came and went.
   (p_findfirst, p_findnext.) *)
EveryMatchIsVisitedOnce ==
  /\ Len(search.visited) <= Len(search.matches)
  /\ ~search.on => Len(search.visited) = Len(search.matches)
  /\ \A i \in DOMAIN search.visited :
       search.visited[i] = search.matches[i] \/ search.matches[i] \in search.gone

(* What the program can ask for is about the program it ran last and the search it
   is in: the two above. (tp2cc_store_wait_status, p_findnext.) *)
AnswersAreUpToDate == StatusIsOfTheLastProgram /\ EveryMatchIsVisitedOnce
============================================================================
