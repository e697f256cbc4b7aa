----------------------------- MODULE ConfigParser -----------------------------
(***************************************************************************)
(* The automaton that cuts a configuration file into tokens.  A character  *)
(* of ValueChars stands for a word of letters, digits, signs and dots, one *)
(* of Others for punctuation; a space for a run of white space; one of Odd *)
(* for what is in none of the automaton's sets: control characters, bytes  *)
(* outside ASCII.                                                          *)
(***************************************************************************)
EXTENDS Naturals, SequencesExt, FiniteSets

CONSTANTS ValueChars, Others, Odd

Quote == "\""
Backslash == "\\"
Space == " "
Punctuation == {Quote, Backslash, Space, "{", "}", ":", ","}
Text == ValueChars \cup Others \cup Punctuation
Chars == Text \cup Odd
ASSUME CharsAssumption == ValueChars \cap Punctuation = {} /\ Odd \cap Text = {}

Edge(from, to, on, action) ==
  [from |-> from, to |-> to, on |-> on, action |-> action, wait |-> FALSE]

\* Slip: the character that ends a value is consumed.
EdgesWithoutWait ==
  {Edge("Ready", "Ready", {Space}, "none"), Edge("Ready", "Ready", {"{"}, "bracket"),
   Edge("Ready", "ValueEnd", {"}"}, "bracket"), Edge("Ready", "Key", {Quote}, "clear"),
   Edge("Key", "Key", Text \ {Quote}, "push"), Edge("Key", "KeyEnd", {Quote}, "key"),
   Edge("KeyEnd", "KeyEnd", {Space}, "none"), Edge("KeyEnd", "Colon", {":"}, "none"),
   Edge("Colon", "Colon", {Space}, "none"), Edge("Colon", "ValueString", {Quote}, "start"),
   Edge("Colon", "ValueOthers", ValueChars, "start"),
   Edge("Colon", "Ready", {"{"}, "bracket"),
   Edge("ValueString", "ValueString", Text \ {Quote}, "push"),
   Edge("ValueString", "ValueEnd", {Quote}, "finish"),
   Edge("ValueOthers", "ValueOthers", ValueChars, "push"),
   Edge("ValueOthers", "ValueEnd", Text \ ValueChars, "value"),
   Edge("ValueEnd", "ValueEnd", {Space}, "none"),
   Edge("ValueEnd", "ValueEnd", {"}"}, "bracket"), Edge("ValueEnd", "Ready", {","}, "none")}

\* The transitions, where one waits: its character is seen again by the target.
Edges ==
  {IF e.action = "value" THEN [e EXCEPT !.wait = TRUE] ELSE e : e \in EdgesWithoutWait}

\* add_transition throws if a state has two transitions for a character.
Overloaded(edges) ==
  \E e, f \in edges : e # f /\ e.from = f.from /\ e.on \cap f.on # {}
ASSUME NoOverload == ~Overloaded(Edges)

Token(type, text) == [type |-> type, text |-> text]

\* What an edge does to the text matched so far and to the tokens.
Act(s, action, c) ==
  CASE action = "none" -> s
    [] action = "clear" -> [s EXCEPT !.matched = <<>>]
    [] action = "start" -> [s EXCEPT !.matched = <<c>>]
    [] action = "push" -> [s EXCEPT !.matched = Append(@, c)]
    [] action = "finish" ->
         [s EXCEPT !.matched = Append(@, c),
                   !.tokens = Append(@, Token("value", Append(s.matched, c)))]
    [] action = "bracket" -> [s EXCEPT !.tokens = Append(@, Token("bracket", <<c>>))]
    [] action \in {"key", "value"} ->
         [s EXCEPT !.tokens = Append(@, Token(action, s.matched))]

\* step: a character without a transition throws.  No state that waits follows
\* another, so that a character is seen twice at most.
Step(s, c) ==
  LET edges == {e \in Edges : e.from = s.at /\ c \in e.on}
  IN  IF edges = {} THEN <<[s EXCEPT !.at = "thrown"], FALSE>>
      ELSE LET e == CHOOSE e \in edges : TRUE
           IN  <<[Act(s, e.action, c) EXCEPT !.at = e.to], e.wait>>
Advance(s, c) ==
  LET first == Step(s, c) IN IF first[2] THEN Step(first[1], c)[1] ELSE first[1]

\* reset and accepted
Start == [at |-> "Ready", matched |-> <<>>, tokens |-> <<>>]
Accepted(s) == s.at = "ValueEnd"

\* parse_and_get_tokens: the tokens, none if the last state is not accepted.
Tokens(text) ==
  LET last == FoldLeft(Advance, Start, text)
  IN  [thrown |-> last.at = "thrown",
       tokens |-> IF Accepted(last) THEN last.tokens ELSE <<>>]
=============================================================================
