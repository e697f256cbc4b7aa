----------------------------- MODULE GlobalConfig -----------------------------
(***************************************************************************)
(* The tree of settings: inserted one by one, written to a file and read   *)
(* back from it.  A tree maps paths to values or to Domain.  Every call    *)
(* holds config_lock, so that the calls of the threads are steps.  The     *)
(* file may be cut short: nobody looks at the state of the stream.         *)
(***************************************************************************)
EXTENDS ConfigParser

CONSTANTS
  Keys,      \* what the program inserts: paths
  Values,    \* and their values
  Texts,     \* the files it may find when it starts
  Reals,     \* the words that are reals and no integers
  Rounded,   \* of reals with more than six digits, what they are printed as
  Domain, Missing,
  MaxExports

VARIABLES
  tree, file,
  source,    \* what the last call has read, Missing if it has read nothing
  status,    \* "new", "running", or "undefined", "endless" or "crashed" once a
             \* call is
  exports    \* so far, for the bound

vars == <<tree, file, source, status, exports>>

NoRoot == [path \in {} |-> Domain]
EmptyTree == [path \in {<<>>} |-> Domain]
Put(t, path, node) == [p \in DOMAIN t \cup {path} |-> IF p = path THEN node ELSE t[p]]
Parent(path) == Front(path)
IsDomain(t, path) == path \in DOMAIN t /\ t[path] = Domain

-----------------------------------------------------------------------------
(* Values and their text: that of a number has all the digits it needs.    *)

\* convert: by the first of quotes, integer, real, truth value that fits.
Convert(word) ==
  CASE Head(word) = Quote -> [kind |-> "string", text |-> SubSeq(word, 2, Len(word) - 1)]
    [] \A i \in DOMAIN word : word[i] = "1" -> [kind |-> "integer", text |-> word]
    [] word \in Reals -> [kind |-> "real", text |-> word]
    [] word = <<"true">> -> [kind |-> "bool", text |-> word]
    [] OTHER -> [kind |-> "string", text |-> word]

Quoted(text) ==
  <<Quote>> \o FlattenSeq([i \in DOMAIN text |->
     IF text[i] \in {Quote, Backslash} THEN <<Backslash, text[i]>> ELSE <<text[i]>>])
  \o <<Quote>>

\* A real is written with six digits.
Printed(word) == IF word \in DOMAIN Rounded THEN Rounded[word] ELSE word
ValueText(value) ==
  CASE value.kind = "string" -> Quoted(value.text)
    [] value.kind = "real" -> Printed(value.text)
    [] OTHER -> value.text

\* The value of a default-constructed ConfigType.
Empty == [kind |-> "empty", text |-> <<>>]

\* The text of a string is anything; that of another value is one word, which
\* means the value.
Words == Seq(ValueChars) \ {<<>>}
Proper(value) ==
  /\ value \in [kind : {"string", "integer", "real", "bool", "empty"}, text : Seq(Chars)]
  /\ value.kind = "empty" => value = Empty
  /\ value.kind \in {"integer", "real", "bool"} => value.text \in Words
  /\ value.kind \in {"integer", "bool"} => Convert(value.text) = value

\* Keys are not empty (valid_key), and a value is not a domain.
ASSUME ConfigAssumption ==
  /\ \A key \in Keys : key \in Seq(Seq(Text)) \ {<<>>}
  /\ Domain \notin Values
  /\ \A value \in Values : Proper(value)
  /\ Texts \subseteq Seq(Chars)
  /\ \A word \in Reals :
       word \in Words /\ word # <<"true">> /\ \E i \in DOMAIN word : word[i] # "1"
  /\ \A word \in DOMAIN Rounded : Rounded[word] \in Words

\* The names of the children of a path, in the order of the map: any will do, as
\* long as it is always the same.
Names(t, path) == SetToSeq({Last(p) : p \in {q \in DOMAIN t \ {<<>>} : Parent(q) = path}})

\* recursive_write, from the children in the order of their names.
Written(t) ==
  LET Key(path) == IF path = <<>> \/ Last(path) = <<>> THEN <<>>
                   ELSE Quoted(Last(path)) \o <<":", Space>>
      written[path \in DOMAIN t] ==
        LET names == Names(t, path)
            Child(i) == written[Append(path, names[i])]
                          \o (IF i < Len(names) THEN <<",", Space>> ELSE <<Space>>)
        IN  IF IsDomain(t, path)
            THEN Key(path) \o <<"{", Space>>
                     \o FlattenSeq([i \in DOMAIN names |-> Child(i)]) \o <<"}">>
            ELSE Quoted(Last(path)) \o <<":", Space>> \o ValueText(t[path])
  IN  IF t = NoRoot THEN <<>> ELSE written[<<>>]

-----------------------------------------------------------------------------
(* insert and get_or_else: down the path, one name after the other.        *)

\* Slip: a value on the way is replaced by a domain.
DescendOver(s, i, key, value) ==
  LET path == SubSeq(key, 1, i)
  IN  CASE s.tree = NoRoot -> [s EXCEPT !.ok = FALSE]
        [] s.tree # NoRoot /\ i < Len(key) -> [s EXCEPT !.tree = Put(@, path, Domain)]
        [] OTHER -> [s EXCEPT !.tree = Put(@, path, value)]

Descend(s, i, key, value) ==
  LET path == SubSeq(key, 1, i)
  IN  CASE ~s.ok -> s
        [] s.ok /\ ~IsDomain(s.tree, Parent(path)) -> [s EXCEPT !.ok = FALSE]
        [] s.ok /\ IsDomain(s.tree, Parent(path)) /\ i < Len(key) ->
             IF path \in DOMAIN s.tree THEN s
             ELSE [s EXCEPT !.tree = Put(@, path, Domain)]
        [] OTHER -> IF IsDomain(s.tree, path) THEN [s EXCEPT !.ok = FALSE]
                    ELSE [s EXCEPT !.tree = Put(@, path, value)]

Inserted(t, key, value) ==
  FoldLeft(LAMBDA s, i : Descend(s, i, key, value), [tree |-> t, ok |-> TRUE],
           [i \in DOMAIN key |-> i])

Get(t, key) == IF key \in DOMAIN t /\ ~IsDomain(t, key) THEN t[key] ELSE Missing

-----------------------------------------------------------------------------
(* parse_and_set: the tokens build a new tree.                             *)

Going(s) == s.end = "going"
Top(s) == Last(s.stack)

\* map::insert leaves a child alone that is there already.
AddChild(t, path, node) == IF path \in DOMAIN t THEN t ELSE Put(t, path, node)

Brace(s, token) ==
  IF token.text = <<"{">> THEN [s EXCEPT !.end = "thrown"]
  ELSE [s EXCEPT !.brackets = @ - 1, !.stack = Front(@),
                 !.end = IF s.brackets = 1 THEN "done" ELSE "going"]

\* The token after a key.
Member(s, token) ==
  LET path == Append(Top(s), s.key[1])
      after == [s EXCEPT !.key = <<>>]
  IN  CASE s.tree[Top(s)] # Domain -> [s EXCEPT !.end = "thrown"]
        [] s.tree[Top(s)] = Domain /\ token.type = "bracket" ->
             [after EXCEPT !.brackets = @ + 1, !.stack = Append(@, path),
                           !.tree = AddChild(@, path, Domain)]
        [] s.tree[Top(s)] = Domain /\ token.type = "value" ->
             [after EXCEPT !.tree = AddChild(@, path, Convert(token.text))]
        [] OTHER -> after

\* One turn of the loop.  It does not advance at a value without a key.
Take(s, token) ==
  CASE ~Going(s) -> s
    [] Going(s) /\ s.key # <<>> -> Member(s, token)
    [] Going(s) /\ s.key = <<>> /\ s.stack = <<>> -> [s EXCEPT !.end = "undefined"]
    [] Going(s) /\ s.key = <<>> /\ s.stack # <<>> ->
         CASE token.type = "bracket" -> Brace(s, token)
           [] token.type = "key" -> [s EXCEPT !.key = <<token.text>>]
           [] token.type = "value" -> [s EXCEPT !.end = "endless"]

\* Slip: the first brace is not counted.
OpeningUncounted(tokens) == 0

\* The first brace opens the root, which is there already.
Opening(tokens) ==
  IF tokens # <<>> /\ Head(tokens) = Token("bracket", <<"{">>) THEN 1 ELSE 0

Built(tokens) ==
  FoldLeft(Take,
    [tree |-> EmptyTree, stack |-> <<<<>>>>, brackets |-> Opening(tokens), key |-> <<>>,
     end |-> "going"],
    IF tokens # <<>> /\ Head(tokens) = Token("bracket", <<"{">>) THEN Tail(tokens)
                                                             ELSE tokens)

\* read_from: a text the automaton throws at leaves the tree as it is; one that
\* it does not accept has no tokens.
Load(text) ==
  LET lexed == Tokens(text)
      built == Built(lexed.tokens)
  IN  /\ tree' = IF lexed.thrown THEN tree ELSE built.tree
      /\ status' = IF ~lexed.thrown /\ built.end \in {"undefined", "endless"}
                   THEN built.end ELSE "running"

-----------------------------------------------------------------------------
Init == tree = NoRoot /\ file = Missing /\ source = Missing /\ status = "new"
        /\ exports = 0

\* The constructor makes a root if it is not to read the default file.
Construct ==
  /\ status = "new" /\ status' = "running"
  /\ tree' = EmptyTree
  /\ UNCHANGED <<file, source, exports>>

\* If it is and cannot open the file, or the automaton throws, there is no root:
\* read_from is noexcept, and the constructor waits for an exception.
ConstructWithoutFile ==
  /\ status = "new" /\ status' = "running"
  /\ UNCHANGED <<tree, file, source, exports>>
ConstructFrom(text) ==
  /\ status = "new" /\ Load(text)
  /\ source' = [text |-> text, of |-> Missing, whole |-> TRUE]
  /\ UNCHANGED <<file, exports>>

Insert(key, value) ==
  /\ status = "running"
  /\ tree' = Inserted(tree, key, value).tree
  /\ source' = Missing /\ UNCHANGED <<file, status, exports>>

\* What reaches the file may be only the first part of the text.
HasEmpty(t) == \E path \in DOMAIN t : t[path] = Empty
Export ==
  /\ status = "running" /\ exports < MaxExports /\ exports' = exports + 1
  /\ ~HasEmpty(tree)
  /\ LET text == Written(tree)
     IN  \E n \in 0..Len(text) :
           file' = [text |-> SubSeq(text, 1, n), of |-> tree, whole |-> n = Len(text)]
  /\ source' = Missing /\ UNCHANGED <<tree, status>>

\* The operator that writes a value calls itself, for ever, for an empty one.
ExportCrashes ==
  /\ status = "running" /\ HasEmpty(tree)
  /\ status' = "crashed" /\ source' = Missing
  /\ UNCHANGED <<tree, file, exports>>

Read ==
  /\ status = "running" /\ file # Missing
  /\ Load(file.text)
  /\ source' = file /\ UNCHANGED <<file, exports>>

Next ==
  \/ Construct \/ ConstructWithoutFile \/ (\E text \in Texts : ConstructFrom(text))
  \/ \E key \in Keys, value \in Values : Insert(key, value)
  \/ Export \/ ExportCrashes \/ Read

Spec == Init /\ [][Next]_vars

-----------------------------------------------------------------------------
(* Properties. *)

\* Every value comes back as itself, but a real as what six digits say: with
\* fewer digits, or as an integer if they say a whole number.
Reread(t) ==
  [path \in DOMAIN t |-> IF t[path] # Domain /\ t[path].kind = "real"
                           THEN Convert(Printed(t[path].text)) ELSE t[path]]
Settings(t) == {<<path, t[path]>> : path \in {p \in DOMAIN t : t[p] # Domain}}

\* Names and strings that std::quoted writes as they are, and that the automaton
\* takes: others are not read back, and one odd byte keeps back a whole file.
PlainWord(w) == Range(w) \subseteq Text \ {Quote, Backslash}
Plain(t) ==
  \A path \in DOMAIN t \ {<<>>} :
    /\ Last(path) # <<>> /\ PlainWord(Last(path))
    /\ t[path] # Domain => PlainWord(t[path].text)

\* What export_all has written of plain names and strings is read back, reals as
\* six digits say: the whole tree from the whole file, and from a file that was
\* cut short no setting that was not written, however the automaton, the stack of
\* domains and the writer divide the work.
SettingsSurviveExport ==
  source # Missing /\ source.of # Missing /\ Plain(source.of) =>
    /\ status = "running"
    /\ Settings(tree) \subseteq Settings(Reread(source.of))
    /\ source.whole => tree = IF source.of = NoRoot THEN EmptyTree ELSE Reread(source.of)

\* The parser comes to an end: the automaton gives it no value without a key,
\* where its loop would not advance.  And a text that begins with a brace never
\* takes it beyond the bottom of its stack, however many braces it closes.
ParserReturns ==
  /\ status # "endless"
  /\ status = "undefined" => Head(source.text) # "{"

\* insert sets one key and no other, or changes nothing: the domains it adds on
\* the way are never left behind by an insertion that fails.
InsertIsAtomic ==
  [][status = "running" /\ tree' # tree /\ source' = Missing =>
       \E key \in Keys :
         /\ Get(tree', key) \in Values /\ tree'[Parent(key)] = Domain
         /\ \A path \in DOMAIN tree' \ {key} :
              IF path \in DOMAIN tree THEN tree'[path] = tree[path]
              ELSE tree'[path] = Domain /\ IsStrictPrefix(path, key)]_vars
=============================================================================
