-------------------------- MODULE WorkspacePatterns --------------------------
(***************************************************************************)
(* The workspace patterns of a root: what its configuration may say, and   *)
(* what a pattern matches, may still match something below of, and lets    *)
(* through of the directories that a scan otherwise leaves out.            *)
(*                                                                         *)
(* A name is a sequence of characters, and a path below the root is a      *)
(* sequence of names.  A segment of a pattern is a sequence of characters, *)
(* among which "*" and "?" are wildcards; Glob stands for any number of    *)
(* names.  A configuration lists texts: a text is split at its slashes, or *)
(* is Malformed (it has a character or a drive letter the rules forbid).   *)
(***************************************************************************)
EXTENDS Integers, Sequences, SequencesExt

CONSTANTS
  Absent, Bad,    \* no configuration; one that is not valid
  Malformed,      \* a text that is no relative pattern
  NodeModules,    \* the name that no pattern lets through
  Generated,      \* the other names of directories that a scan leaves out
  MaxPatterns,    \* MAX_WORKSPACE_PATTERN_COUNT
  MaxSegments     \* MAX_WORKSPACE_PATTERN_SEGMENTS

Name == Seq(STRING)
Glob == <<"*", "*">>

(* What a configuration may hold.                                          *)
Texts == Seq([negative : BOOLEAN, segments : Seq(Name)] \cup {Malformed})
Configuration ==
  [pnpm : Texts \cup {Absent, Bad}, workspaces : Texts \cup {Absent, Bad}]

Hidden(name) == name # <<>> /\ name[1] = "."
ShouldIgnore(name) == Hidden(name) \/ name = NodeModules \/ name \in Generated

-----------------------------------------------------------------------------

(* parseWorkspacePatterns: "./" in front and "/" at the end mean nothing.  *)
Trimmed(segments) ==
  LET bare == IF Len(segments) > 1 /\ segments[1] = <<".">>
              THEN Tail(segments) ELSE segments
  IN  IF Len(bare) > 1 /\ Last(bare) = <<>> THEN Front(bare) ELSE bare

Stars(segment) ==
  \E k \in 1..Len(segment) - 1 : segment[k] = "*" /\ segment[k + 1] = "*"

Legal(text) ==
  /\ text # Malformed
  /\ LET segments == Trimmed(text.segments)
     IN  /\ Len(segments) <= MaxSegments
         /\ segments[1] # <<"~">>
         /\ \A k \in 1..Len(segments) :
              /\ segments[k] \notin {<<>>, <<".">>, <<".", ".">>}
              /\ Stars(segments[k]) => segments[k] = Glob

Parsed(texts) ==
  IF Len(texts) > MaxPatterns \/ \E k \in 1..Len(texts) : ~Legal(texts[k])
  THEN Bad
  ELSE [k \in 1..Len(texts) |->
          [negative |-> texts[k].negative, segments |-> Trimmed(texts[k].segments)]]

(* readWorkspacePatterns: a pnpm-workspace.yaml counts alone if it is      *)
(* there, and must list something.                                         *)
ReadPatterns(config) ==
  IF config.pnpm = Absent
  THEN IF config.workspaces = Absent THEN <<>>
       ELSE IF config.workspaces = Bad THEN Bad ELSE Parsed(config.workspaces)
  ELSE IF config.pnpm \in {Bad, <<>>} THEN Bad ELSE Parsed(config.pnpm)

-----------------------------------------------------------------------------

Wildcard(character) == character \notin {"\n", "\r", "LS", "PS"}

(* matchesSegment: how far into the name one more character of the         *)
(* pattern may reach.                                                      *)
Reach(reachable, character, name) ==
  IF character = "*"
  THEN {k \in 0..Len(name) :
          \E j \in reachable : j <= k /\ \A i \in j + 1..k : Wildcard(name[i])}
  ELSE {k \in 1..Len(name) :
          /\ k - 1 \in reachable
          /\ IF character = "?" THEN Wildcard(name[k]) ELSE name[k] = character}

MatchesSegment(segment, name) ==
  LET reachable[i \in 0..Len(segment)] ==
        IF i = 0 THEN {0} ELSE Reach(reachable[i - 1], segment[i], name)
  IN  Len(name) \in reachable[Len(segment)]

MatchesPatternSegment(segment, name) ==
  (Hidden(name) => Hidden(segment)) /\ MatchesSegment(segment, name)

MatchesSegments(pattern, path) ==
  LET visit[at \in (1..Len(pattern) + 1) \X (1..Len(path) + 1)] ==
        LET i == at[1]  j == at[2]
        IN  IF i > Len(pattern) THEN j > Len(path)
            ELSE IF pattern[i] = Glob
            THEN \/ visit[<<i + 1, j>>]
                 \/ j <= Len(path) /\ ~Hidden(path[j]) /\ visit[<<i, j + 1>>]
            ELSE /\ j <= Len(path) /\ MatchesPatternSegment(pattern[i], path[j])
                 /\ visit[<<i + 1, j + 1>>]
  IN  visit[<<1, 1>>]

CloseGlobstars(pattern, states) ==
  {m \in 1..Len(pattern) + 1 :
     \E i \in states : i <= m /\ \A k \in i..m - 1 : pattern[k] = Glob}

(* prefixCanMatch: where in the pattern the path may have led.             *)
Led(pattern, states, name) ==
  LET open == CloseGlobstars(pattern, states) \ {Len(pattern) + 1}
  IN  {i \in open : pattern[i] = Glob /\ ~Hidden(name)}
      \cup {i + 1 : i \in {k \in open : /\ pattern[k] # Glob
                                        /\ MatchesPatternSegment(pattern[k], name)}}

PrefixStates(pattern, path) ==
  LET states[j \in 0..Len(path)] ==
        IF j = 0 THEN {1} ELSE Led(pattern, states[j - 1], path[j])
  IN  CloseGlobstars(pattern, states[Len(path)])

PrefixCanMatch(pattern, path) == PrefixStates(pattern, path) # {}
PrefixCanMatchStrictly(pattern, path) ==
  \E state \in PrefixStates(pattern, path) : state <= Len(pattern)

Positive(patterns) == {patterns[k].segments : k \in {i \in DOMAIN patterns : ~patterns[i].negative}}
Negative(patterns) == {patterns[k].segments : k \in {i \in DOMAIN patterns : patterns[i].negative}}
Open(pattern) == Last(pattern) = Glob

Matches(patterns, path) ==
  /\ \E p \in Positive(patterns) : MatchesSegments(p, path)
  /\ ~\E p \in Negative(patterns) : MatchesSegments(p, path)

CutOff(patterns, path) ==
  \E p \in Negative(patterns) : Open(p) /\ MatchesSegments(p, path)

CouldContainMatch(patterns, path) ==
  ~CutOff(patterns, path) /\ \E p \in Positive(patterns) : PrefixCanMatch(p, path)

(* Faulty: what a pattern matches is taken for all that lies below it.     *)
CouldContainStrictMatchAtEnd(patterns, path) ==
  CouldContainMatch(patterns, path) /\ ~Matches(patterns, path)

CouldContainStrictMatch(patterns, path) ==
  ~CutOff(patterns, path) /\ \E p \in Positive(patterns) : PrefixCanMatchStrictly(p, path)

(* An ignored directory is entered if a pattern names it, and not only by  *)
(* a globstar.                                                             *)
IsExplicitlyIncluded(patterns, path) ==
  LET name == Last(path)
  IN  /\ name # NodeModules
      /\ \E p \in Positive(patterns) : \E i \in 1..Len(p) :
           /\ p[i] # Glob /\ MatchesPatternSegment(p[i], name)
           /\ MatchesSegments(SubSeq(p, 1, i), path)

-----------------------------------------------------------------------------

(* What patterns mean, said without the machines above: a name is cut into *)
(* one part for every character of the segment, where a wildcard stands    *)
(* for some of it, and a path into one part for every segment, where Glob  *)
(* stands for some names in a row, among those it may cross.               *)
Cuts(parts, whole) ==
  {cut \in [1..parts + 1 -> 1..whole + 1] :
     cut[1] = 1 /\ cut[parts + 1] = whole + 1 /\ \A i \in 1..parts : cut[i] <= cut[i + 1]}

Spells(segment, name) ==
  /\ Hidden(name) => Hidden(segment)
  /\ \E cut \in Cuts(Len(segment), Len(name)) : \A i \in 1..Len(segment) :
       \/ segment[i] = "*" /\ \A l \in cut[i]..cut[i + 1] - 1 : Wildcard(name[l])
       \/ /\ cut[i + 1] = cut[i] + 1
          /\ name[cut[i]] = segment[i] \/ (segment[i] = "?" /\ Wildcard(name[cut[i]]))

Names(pattern, path, crossed) ==
  \E cut \in Cuts(Len(pattern), Len(path)) : \A i \in 1..Len(pattern) :
    IF pattern[i] = Glob THEN \A l \in cut[i]..cut[i + 1] - 1 : path[l] \in crossed
    ELSE cut[i + 1] = cut[i] + 1 /\ Spells(pattern[i], path[cut[i]])

(* A directory is declared if a pattern names it, with Glob for ordinary   *)
(* names only, and no negative one names it or takes away all around it.   *)
Declared(patterns, path) ==
  /\ \E p \in Positive(patterns) : Names(p, path, {n \in Name : ~ShouldIgnore(n)})
  /\ \A k \in 1..Len(path) : path[k] # NodeModules
  /\ ~\E p \in Negative(patterns) : \E k \in 1..Len(path) :
        /\ k < Len(path) => Open(p)
        /\ Names(p, SubSeq(path, 1, k), {n \in Name : ~Hidden(n)})

=============================================================================
