--------------------------------- MODULE Glob ---------------------------------
(***************************************************************************)
(* src/glob.c: glob_match(), which find uses for -name and -path.  It      *)
(* matches from left to right, remembers only the last '*' it has met, and *)
(* starts over there, one character later, when the rest does not fit.     *)
(***************************************************************************)
EXTENDS Matching

CONSTANTS Patterns,  \* what glob may point at: sequences of characters
          Strings    \* what str may point at

ASSUME InputsAssumption == Patterns \subseteq Seq(Char) /\ Strings \subseteq Seq(Char)

VARIABLES pattern, string,        \* the two arguments
          glob, str,              \* where the pointers are in them
          glob_start, str_start,  \* the last '*' and what it starts at; 0 is NULL
          result                  \* "none" until the function returns 0 or 1

match == <<pattern, string, glob, str, glob_start, str_start, result>>
arguments == <<pattern, string>>

\* The type invariant: the pointers never leave the arguments and their '\0'.
GlobTypeOK ==
  /\ pattern \in Patterns /\ string \in Strings
  /\ glob \in 1..(Len(pattern) + 1) /\ str \in 1..(Len(string) + 1)
  /\ glob_start \in 0..Len(pattern) /\ str_start \in 0..(Len(string) + 1)
  /\ glob_start = 0 <=> str_start = 0
  /\ result \in {"none", "0", "1"}

-------------------------------------------------------------------------------
GlobInit ==
  /\ pattern \in Patterns /\ string \in Strings
  /\ glob = 1 /\ str = 1
  /\ glob_start = 0 /\ str_start = 0
  /\ result = "none"

\* *glob and *str are not '\0'.
GlobLeft == glob <= Len(pattern)
StrLeft  == str <= Len(string)
Looping  == result = "none" /\ (GlobLeft \/ StrLeft)

\* *glob takes one character, and *str is one that it takes.
Takes ==
  /\ GlobLeft /\ StrLeft /\ pattern[glob] # "*"
  /\ pattern[glob] = "?" \/ pattern[glob] = string[str]

\* case '?' and the default case.
Advance ==
  /\ Looping /\ Takes
  /\ glob' = glob + 1 /\ str' = str + 1
  /\ UNCHANGED <<arguments, glob_start, str_start, result>>

\* case '*'.
Star ==
  /\ Looping /\ GlobLeft /\ pattern[glob] = "*"
  /\ glob_start' = glob /\ str_start' = str
  /\ glob' = glob + 1
  /\ UNCHANGED <<arguments, str, result>>

\* What a break out of the switch leads to.
Mismatch == Looping /\ ~Takes /\ ~(GlobLeft /\ pattern[glob] = "*")
CanRetry == str_start # 0 /\ str_start <= Len(string)

RetryInPlace ==
  /\ Mismatch /\ CanRetry
  /\ glob' = glob_start /\ str' = str_start
  /\ UNCHANGED <<arguments, glob_start, str_start, result>>

RetryAfterStar ==
  /\ Mismatch /\ CanRetry
  /\ glob' = glob_start + 1 /\ str' = str + 1 /\ str_start' = str + 1
  /\ UNCHANGED <<arguments, glob_start, result>>

Retry ==
  /\ Mismatch /\ CanRetry
  /\ glob' = glob_start
  /\ str' = str_start + 1 /\ str_start' = str_start + 1
  /\ UNCHANGED <<arguments, glob_start, result>>

Reject ==
  /\ Mismatch /\ ~CanRetry
  /\ result' = "0"
  /\ UNCHANGED <<arguments, glob, str, glob_start, str_start>>

\* The loop ends when both strings do.
Succeed ==
  /\ result = "none" /\ ~GlobLeft /\ ~StrLeft
  /\ result' = "1"
  /\ UNCHANGED <<arguments, glob, str, glob_start, str_start>>

GlobNext == Advance \/ Star \/ Retry \/ Reject \/ Succeed

GlobSpec == GlobInit /\ [][GlobNext]_match /\ WF_match(GlobNext)

-------------------------------------------------------------------------------
\* glob_match returns 1 exactly for the strings that match: to remember only the
\* last '*' (lines 23-24) and to move on greedily loses no match.
Correct == /\ result = "1" => Matches(pattern, string)
           /\ result = "0" => ~Matches(pattern, string)

\* It returns for every pattern and string.
Termination == <>(result # "none")

(***************************************************************************)
(* Why it is correct.                                                      *)
(***************************************************************************)

\* What has been read of the pattern matches what has been read of the string,
\* but for a '*' that is about to take more.
Sound ==
  \E b \in 1..str : /\ Spans(pattern, string, 1, 1, glob, b)
                    /\ b = str \/ (glob = glob_start /\ GlobLeft /\ pattern[glob] = "*")

\* The remembered '*' is one, lies behind, and what precedes it matched.
StarSound ==
  glob_start # 0 =>
    /\ glob_start <= glob /\ str_start <= str /\ pattern[glob_start] = "*"
    /\ \E b \in 1..str_start : Spans(pattern, string, 1, 1, glob_start, b)

\* If there is a match, the one that goes on from here is one, or one in which
\* the last '*' takes at least one character more.
Complete ==
  Matches(pattern, string) =>
    \/ MatchesFrom(pattern, string, glob, str)
    \/ /\ glob_start # 0 /\ str_start <= Len(string)
       /\ MatchesFrom(pattern, string, glob_start, str_start + 1)

\* A match in which the last '*' takes more is, at this place of the pattern, no
\* less far in the string: an earlier '*' need never be tried again.
NoLater ==
  glob_start # 0 =>
    \A cut \in Cuts(pattern, string, glob_start, Len(pattern) + 1) :
      cut[glob_start] = str_start + 1 => cut[glob] >= str

\* The inductive invariant behind Correct.
Greedy == Sound /\ StarSound /\ Complete /\ NoLater /\ Correct
===============================================================================
