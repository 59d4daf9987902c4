----------------------------- MODULE CommandLine -----------------------------
(***************************************************************************)
(* How a daemon is told its arguments on Windows: StartUnlocked joins them *)
(* into one string (BuildCommandLine, QuoteWindowsArgument) and the C      *)
(* runtime of the daemon takes that string apart.  A path or an argument   *)
(* is a sequence of Characters; the user types them in before the start.   *)
(***************************************************************************)
EXTENDS Naturals, SequencesExt

CONSTANTS
  Paths,         \* executable_path
  MaxArguments,  \* bound on args_
  MaxText        \* bound on the characters of all arguments together

Space == " "
Quote == "\""
Backslash == "\\"
Characters == {"x", Space, Quote, Backslash}

(* What is assumed of the constants. *)
CommandLineAssumption ==
  /\ MaxArguments \in Nat /\ MaxText \in Nat
  /\ \A p \in Paths : p \in Seq(Characters \ {Quote}) /\ p # <<>> /\ Last(p) # Backslash

VARIABLES executable_path, args

Init == executable_path \in Paths /\ args = <<>>

(* The user adds an argument, or a character to the last one. *)
NewArgument ==
  /\ Len(args) < MaxArguments
  /\ args' = Append(args, <<>>)
  /\ UNCHANGED executable_path

Type(ch) ==
  /\ args # <<>> /\ Len(FlattenSeq(args)) < MaxText
  /\ args' = [args EXCEPT ![Len(args)] = Append(@, ch)]
  /\ UNCHANGED executable_path

Next == NewArgument \/ \E ch \in Characters : Type(ch)
Spec == Init /\ [][Next]_<<executable_path, args>>

-----------------------------------------------------------------------------

Slashes(n) == [i \in 1..n |-> Backslash]

(* One turn of the loop over the characters of an argument. *)
QuoteCharacter(so_far, ch) ==
  IF ch = Backslash
  THEN [so_far EXCEPT !.backslashes = @ + 1]
  ELSE [quoted |-> so_far.quoted \o
                     Slashes(IF ch = Quote THEN 2 * so_far.backslashes + 1
                             ELSE so_far.backslashes) \o <<ch>>,
        backslashes |-> 0]

(* Mutant: backslashes before the closing quote are copied as they are. *)
QuoteNotDoubled(argument) ==
  IF argument # <<>> /\ Range(argument) \cap {Space, Quote} = {}
  THEN argument
  ELSE LET loop == FoldLeft(QuoteCharacter, [quoted |-> <<Quote>>, backslashes |-> 0],
                            argument)
       IN loop.quoted \o Slashes(loop.backslashes) \o <<Quote>>

QuoteWindowsArgument(argument) ==
  IF argument # <<>> /\ Range(argument) \cap {Space, Quote} = {}
  THEN argument
  ELSE LET loop == FoldLeft(QuoteCharacter, [quoted |-> <<Quote>>, backslashes |-> 0],
                            argument)
       IN loop.quoted \o Slashes(2 * loop.backslashes) \o <<Quote>>

BuildCommandLine ==
  FoldLeft(LAMBDA line, arg : line \o <<Space>> \o QuoteWindowsArgument(arg),
           QuoteWindowsArgument(executable_path), args)

-----------------------------------------------------------------------------
(* External: the C runtime's rules.  The first word is the program name,   *)
(* in which only quotes count.                                             *)
ProgramName(line) ==
  LET quoted == line[1] = Quote
      ends == {i \in 2..Len(line) : line[i] = IF quoted THEN Quote ELSE Space}
      end == IF ends = {} THEN Len(line) + 1 ELSE Min(ends)
  IN [name |-> SubSeq(line, IF quoted THEN 2 ELSE 1, end - 1),
      rest |-> SubSeq(line, IF quoted THEN end + 1 ELSE end, Len(line))]

(* In the others 2n backslashes before a quote are n and a delimiter, 2n+1 *)
(* are n and a quote, and a quote right after a closing one is a quote.    *)
ReadCharacter(r, ch) ==
  CASE ch = Backslash ->
         [r EXCEPT !.slashes = @ + 1, !.inside = TRUE,
                   !.mode = IF @ = "quoted" THEN @ ELSE "plain"]
    [] ch = Quote /\ (r.slashes % 2 = 1 \/ r.mode = "closed") ->
         [r EXCEPT !.text = @ \o Slashes(r.slashes \div 2) \o <<Quote>>, !.slashes = 0,
                   !.mode = IF @ = "closed" THEN "quoted" ELSE @]
    [] ch = Quote /\ r.slashes % 2 = 0 /\ r.mode # "closed" ->
         [r EXCEPT !.text = @ \o Slashes(r.slashes \div 2), !.slashes = 0, !.inside = TRUE,
                   !.mode = IF @ = "quoted" THEN "closed" ELSE "quoted"]
    [] ch = Space /\ r.mode # "quoted" ->
         [words |-> IF r.inside THEN Append(r.words, r.text \o Slashes(r.slashes)) ELSE r.words,
          text |-> <<>>, slashes |-> 0, inside |-> FALSE, mode |-> "plain"]
    [] OTHER ->
         [r EXCEPT !.text = @ \o Slashes(r.slashes) \o <<ch>>, !.slashes = 0, !.inside = TRUE,
                   !.mode = IF @ = "quoted" THEN @ ELSE "plain"]

ReadCommandLine(line) ==
  LET program == ProgramName(line)
      start == [words |-> <<>>, text |-> <<>>, slashes |-> 0, inside |-> FALSE,
                mode |-> "plain"]
  IN <<program.name>> \o FoldLeft(ReadCharacter, start, Append(program.rest, Space)).words

-----------------------------------------------------------------------------

(* The daemon is given the arguments the supervisor was given for it, none *)
(* split, joined, lost or altered, whatever blanks, quotes and backslashes *)
(* they hold.                                                              *)
ArgumentsSurvive == ReadCommandLine(BuildCommandLine) = <<executable_path>> \o args
=============================================================================
