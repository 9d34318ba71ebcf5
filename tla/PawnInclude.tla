---------------------------- MODULE PawnInclude ----------------------------
(***************************************************************************)
(* The Pawn include of a plugin: derived from its natives                  *)
(* (crates/samp-codegen/src/pawn_decl.rs), filled into a template, or      *)
(* kept by hand and compared with what the plugin registers                *)
(* (crates/samp/src/pawn_include.rs).                                      *)
(*                                                                         *)
(* Both sides are edited, in any order: `natives` is the Rust side,        *)
(* `source` what the author keeps.  Text is a sequence of tokens, so a     *)
(* name is never part of another and spaces do not exist; tags are in      *)
(* lower case.  Findings and errors are sets: their order and wording are  *)
(* left out, as are {{DOC}}, {{PLUGIN}}, {{GUARD}}, {{VERSION}} and the    *)
(* docs above a declaration, which are comments or plain text, and         *)
(* #[native(args = "...")], whose text stands for the derived one.         *)
(***************************************************************************)
EXTENDS Integers, Sequences, FiniteSets, SequencesExt

CONSTANTS
  Names,        \* what a native, or an alias of one, can be called
  Types,        \* the Rust types of arguments
  Additions,    \* what follows an argument: "none", "value", "list", "size"
  Callbacks,    \* callback_decls: what initialize_plugin! says is called
  Crate,        \* the natives before the first edit
  SizeEndsList, \* whether a size expression is the last thing in its list
  MaxArgs, MaxPieces, MaxEdits   \* bounds

VARIABLES
  natives,   \* the #[native] functions, in the order of registration
  source,    \* the include: pieces written by hand, and placeholders
  edits      \* how many edits it took

vars == <<natives, source, edits>>

None == ""

-----------------------------------------------------------------------------
(* Text *)

Comma == ","
Semicolon == ";"
LeftBrace == "{"
RightBrace == "}"
Untagged == "_"
Brackets == [open |-> {"(", "[", LeftBrace}, close |-> {")", "]", RightBrace}]
Punctuation == Brackets.open \cup Brackets.close \cup
               {Comma, Semicolon, ":", "=", "&", "...", "//", "/*", "*/", "\n", "{{"}
\* The other tokens, names apart.
Words == Punctuation \cup {None, "native", "forward", "const", "float", "bool", "arg", "sizeof",
                          "0", Untagged, "raw", "as", "NATIVE", "VAR"}
Tokens == Words \cup Names \cup Callbacks
Identifier(text) == Len(text) = 1 /\ text[1] \notin Punctuation

Find(text, token) == SelectInSeq(text, LAMBDA t : t = token)
FindLast(text, token) == SelectLastInSeq(text, LAMBDA t : t = token)
WithName(records, name) == SelectInSeq(records, LAMBDA r : r.name = name)
From(text, i) == SubSeq(text, i, Len(text))
Before(text, token) == IF Contains(text, token) THEN SubSeq(text, 1, Find(text, token) - 1)
                                                ELSE text
Strip(text, token) == IF text # <<>> /\ Head(text) = token THEN Tail(text) ELSE text
When(condition, text) == IF condition THEN text ELSE <<>>
Join(texts, separator) ==
  FlattenSeq([i \in DOMAIN texts |-> When(i # 1, separator) \o texts[i]])
Tagged(tag) == IF tag = None THEN <<>> ELSE <<tag, ":">>

\* An argument as it is written: Shape::apply puts the addition after it.
Addition(kind) ==
  CASE kind = "none"  -> <<>>
    [] kind = "value" -> <<"=", "0">>
    [] kind = "list"  -> <<"=", LeftBrace, "0", Comma, "0", RightBrace>>
    [] kind = "size"  -> <<"=", "sizeof", "(", "arg", ")">>
ArgumentText(a) ==
  When(a.const, <<"const">>) \o When(a.by_reference, <<"&">>) \o Tagged(a.tag) \o <<"arg">>
    \o When(a.array, <<"[", "]">>) \o Addition(a.addition)
Varargs == <<LeftBrace, "float", Comma, Untagged, RightBrace, ":", "...">>
List(d) == Join([i \in DOMAIN d.arguments |-> ArgumentText(d.arguments[i])]
                  \o When(d.variadic, <<Varargs>>), <<Comma>>)
Line(keyword, d) ==
  <<keyword>> \o Tagged(d.tag) \o <<d.name, "(">> \o List(d) \o <<")">>
    \o When(d.implemented_by # None, <<"=", d.implemented_by>>) \o <<Semicolon>>

-----------------------------------------------------------------------------
(* What #[native] derives (pawn_decl.rs) *)

tag_of(type) == CASE type \in {"f32", "Ref<f32>"} -> "float"
                  [] type = "bool" -> "bool"
                  [] OTHER -> None

arg_decl(argument) ==
  [const        |-> argument.type = "AmxString",
   by_reference |-> argument.type \in {"Ref<i32>", "Ref<f32>"},
   tag          |-> tag_of(argument.type),
   array        |-> argument.type \in {"AmxString", "Buffer"},
   addition     |-> argument.addition]

Derived(native) ==
  [tag            |-> tag_of(native.returns),
   name           |-> native.name,
   arguments      |-> [i \in DOMAIN native.args |-> arg_decl(native.args[i])],
   variadic       |-> native.varargs,
   implemented_by |-> None]

\* The same native under another name.
Aliased(d, alias) == [d EXCEPT !.name = alias, !.implemented_by = d.name]

native_decl(native) ==
  IF native.raw
  THEN <<"//", "native">> \o Tagged(tag_of(native.returns)) \o
       <<native.name, "(", "...", ")", Semicolon, "//", "raw", "native">>
  ELSE Line("native", Derived(native))

native_decls == [i \in DOMAIN natives |-> native_decl(natives[i])]

-----------------------------------------------------------------------------
(* Reading declarations *)

\* One token further, in code or in a comment.
Skip(state, c) ==
  LET in(place) == [in |-> place, out |-> state.out]
      kept == [in |-> "code", out |-> Append(state.out, c)]
  IN CASE state.in = "block" -> IF c = "*/" THEN in("code") ELSE state
       [] state.in = "line"  -> IF c = "\n" THEN kept ELSE state
       [] state.in = "code"  -> IF c = "//" THEN in("line") ELSE IF c = "/*" THEN in("block") ELSE kept

without_comments(text) ==
  LET read[i \in 0 .. Len(text)] ==
        IF i = 0 THEN [in |-> "code", out |-> <<>>] ELSE Skip(read[i - 1], text[i])
  IN read[Len(text)].out

\* One token further in a list: a comma outside of brackets ends an argument.
Split(state, c) ==
  IF c = Comma /\ state.depth = 0
  THEN [parts |-> Append(state.parts, state.current), current |-> <<>>, depth |-> 0]
  ELSE [parts |-> state.parts, current |-> Append(state.current, c),
        depth |-> state.depth + (IF c \in Brackets.open THEN 1
                                 ELSE IF c \in Brackets.close THEN -1 ELSE 0)]

split_arguments(list) ==
  LET read[i \in 0 .. Len(list)] ==
        IF i = 0 THEN [parts |-> <<>>, current |-> <<>>, depth |-> 0] ELSE Split(read[i - 1], list[i])
      end == read[Len(list)]
  IN end.parts \o When(end.current # <<>>, <<end.current>>)

\* One argument or, for varargs, none: `text` is cut at the default, `body` is
\* past its `&`, and its tag ends at `colon`.
ArgumentRead(text, body, colon) ==
  <<[tag          |-> IF colon = 0 THEN None ELSE body[1],
     by_reference |-> text # body,
     array        |-> Contains(From(body, colon + 1), "[")]>>
TagEnd(body) == IF body[1] = LeftBrace THEN 0 ELSE Find(body, ":")
WithoutDefault(text, body) == ArgumentRead(text, body, TagEnd(body))
parse_argument(written) ==
  LET text == Strip(Before(written, "="), "const")
  IN IF text = <<>> \/ Contains(text, "...") THEN <<>>
     ELSE WithoutDefault(text, Strip(text, "&"))

\* The declaration with these tokens before, in and after its parentheses.
Declaration(head, colon, list, parts, target) ==
  [name           |-> head[colon + 1],
   tag            |-> IF colon = 0 THEN None ELSE head[colon - 1],
   arguments      |-> FlattenSeq([i \in DOMAIN parts |-> parse_argument(parts[i])]),
   variadic       |-> Contains(list, "..."),
   implemented_by |-> IF Identifier(target) THEN target[1] ELSE None,
   shape_known    |-> TRUE]

ToDeclaration(head, list, tail) ==
  Declaration(head, FindLast(head, ":"), list, split_arguments(list),
              IF Contains(tail, "=") THEN From(tail, Find(tail, "=") + 1) ELSE <<>>)

\* A name behind its tag: nothing else may be in front of the parenthesis.
NameOf(head) == From(head, FindLast(head, ":") + 1)

\* A turn of the loop: what is read behind the next keyword, and what is left;
\* nothing, where the loop ends.
Turn(rest, keyword) ==
  LET after == From(rest, Find(rest, keyword) + 1)
      open == Find(after, "(")
      close == Find(after, ")")
      head == SubSeq(after, 1, open - 1)
      past == From(after, close + 1)
      semicolon == Find(past, Semicolon)
  IN IF ~Contains(rest, keyword) \/ open = 0 \/ close = 0 THEN [found |-> <<>>, rest |-> <<>>]
     ELSE IF close < open THEN [found |-> <<>>, rest |-> after]
     ELSE IF ~Identifier(NameOf(head)) THEN [found |-> <<>>, rest |-> From(after, close)]
     ELSE [found |-> <<ToDeclaration(head, SubSeq(after, open + 1, close - 1),
                                     SubSeq(past, 1, semicolon - 1))>>,
           rest |-> IF semicolon = 0 THEN past ELSE From(past, semicolon)]

parse_declarations(cleaned, keyword) ==
  LET declarations[rest \in Seq(Tokens)] ==
        IF rest = <<>> THEN <<>>
        ELSE Turn(rest, keyword).found \o declarations[Turn(rest, keyword).rest]
  IN declarations[cleaned]

parse(text) == parse_declarations(without_comments(text), "native")
parse_forwards(text) == parse_declarations(without_comments(text), "forward")

registered(decls) ==
  [i \in DOMAIN decls |->
     [parse(Strip(decls[i], "//"))[1] EXCEPT !.shape_known = Head(decls[i]) # "//"]]

-----------------------------------------------------------------------------
(* Comparing *)

\* Mutant: the name after the = is not followed.
ImplementsItself(d) == d.name

implementing(d) == IF d.implemented_by # None THEN d.implemented_by ELSE d.name

OneIf(condition, x) == IF condition THEN {x} ELSE {}
Finding(kind, name, position) == [kind |-> kind, native |-> name, position |-> position]

\* What a declaration of the include and the native behind it disagree about.
Mismatches(include, plugin) ==
  LET both == DOMAIN include.arguments \cap DOMAIN plugin.arguments
  IN OneIf(include.tag # plugin.tag, Finding("ReturnTag", include.name, 0))
       \cup OneIf(~include.variadic /\ Len(include.arguments) # Len(plugin.arguments),
                  Finding("Arity", include.name, 0))
       \cup {Finding("ArgumentShape", include.name, i) :
               i \in {j \in both : include.arguments[j] # plugin.arguments[j]}}

compare_declarations(declared, plugin) ==
  LET behind(d) == WithName(plugin, implementing(d))
      missing == {r \in Range(plugin) : \A d \in Range(declared) : implementing(d) # r.name}
      extra == {d \in Range(declared) : behind(d) = 0}
      shared == {d \in Range(declared) \ extra : plugin[behind(d)].shape_known}
  IN {Finding("MissingFromInclude", r.name, 0) : r \in missing}
       \cup {Finding("NotRegistered", d.name, 0) : d \in extra}
       \cup UNION {Mismatches(d, plugin[behind(d)]) : d \in shared}

missing_forwards(text) ==
  LET forwarded == {f.name : f \in Range(parse_forwards(text))}
  IN {Finding("CallbackNotForwarded", c, 0) : c \in Callbacks \ forwarded}

-----------------------------------------------------------------------------
(* Templates *)

\* A placeholder ends in }} or lacks it: "UNCLOSED" is any that does, other than
\* {{NATIVE:...}}.
OpenKinds == {"UNCLOSED", "UNCLOSED NATIVE"}
IsPlaceholder(piece) == piece.kind \in {"NATIVES", "NATIVE", "CALLBACKS", "VAR"} \cup OpenKinds
IsTemplate(pieces) == \E p \in DOMAIN pieces : IsPlaceholder(pieces[p])
Error(kind, name) == [kind |-> kind, name |-> name]

Written(piece) ==
  CASE piece.comment = "none"  -> Line(piece.kind, piece.decl)
    [] piece.comment = "line"  -> <<"//">> \o Line(piece.kind, piece.decl)
    [] piece.comment = "block" -> <<"/*">> \o Line(piece.kind, piece.decl) \o <<"*/">>

\* How a piece is written in a template, as far as it tells in a name.
SourceText(piece) ==
  CASE ~IsPlaceholder(piece) -> Written(piece)
    [] piece.kind \in {"NATIVE", "UNCLOSED NATIVE"} ->
         <<"{{", "NATIVE", ":", piece.name>> \o When(piece.alias # <<>>, <<"as">> \o piece.alias)
    [] OTHER -> <<"{{", "VAR">>

\* What the first }} after it makes of an open placeholder: `text`, which lies
\* between them, is part of its name, or of its alias if it has one.
Closed(opener, text) ==
  CASE opener.kind = "UNCLOSED" -> [kind |-> "VAR"]
    [] opener.kind = "UNCLOSED NATIVE" /\ opener.alias = <<>> ->
         [kind |-> "NATIVE", name |-> None, alias |-> <<>>]
    [] opener.kind = "UNCLOSED NATIVE" /\ opener.alias # <<>> ->
         [kind |-> "NATIVE", name |-> opener.name, alias |-> opener.alias \o <<"\n">> \o text]

\* A piece further: it is taken as it is, opens a placeholder, is inside one or
\* closes it.
ReadPiece(state, piece) ==
  LET text == state.text \o SourceText(piece)
  IN CASE state.open = <<>> /\ piece.kind \notin OpenKinds ->
            [state EXCEPT !.read = Append(@, piece)]
       [] state.open = <<>> /\ piece.kind \in OpenKinds -> [state EXCEPT !.open = <<piece>>]
       [] state.open # <<>> /\ (~IsPlaceholder(piece) \/ piece.kind \in OpenKinds) ->
            [state EXCEPT !.text = Append(text, "\n")]
       [] OTHER -> [read |-> Append(state.read, Closed(state.open[1], text)), open |-> <<>>, text |-> <<>>]

\* The pieces as `render` finds them, from {{ to }}; where there is no }} left it
\* stops.
AsRead(pieces) ==
  LET reading[p \in 0 .. Len(pieces)] ==
        IF p = 0 THEN [read |-> <<>>, open |-> <<>>, text |-> <<>>]
        ELSE ReadPiece(reading[p - 1], pieces[p])
      end == reading[Len(pieces)]
  IN end.read \o When(end.open # <<>>, <<[kind |-> "UNCLOSED"]>>)

\* Mutant: the alias is appended and the name is left.
AliasKeepsName(decl, native, alias) ==
  SubSeq(decl, 1, Find(decl, Semicolon) - 1) \o <<"=", native, Semicolon>>

alias_line(decl, native, alias) ==
  LET found == Find(decl, native)
      renamed == SubSeq(decl, 1, found - 1) \o alias \o From(decl, found + 1)
      semicolon == FindLast(renamed, Semicolon)
  IN SubSeq(renamed, 1, semicolon - 1) \o <<"=", native, Semicolon>>

\* What a placeholder becomes: its text, the natives it places, and an error.
expand(piece, placed) ==
  LET decls == native_decls
      rest == {i \in DOMAIN natives : i \notin placed}
      named == WithName(natives, piece.name)
      lines == [i \in DOMAIN natives |-> When(i \in rest, Append(decls[i], "\n"))]
      forwards == {<<"forward", c, "(", ")", Semicolon, "\n">> : c \in Callbacks}
      text(t, places) == [text |-> t, places |-> places, errors |-> {}]
      error(e) == [text |-> <<>>, places |-> {}, errors |-> {e}]
  IN CASE piece.kind = "NATIVES" -> text(FlattenSeq(lines), rest)
       [] piece.kind = "NATIVE" /\ named = 0 -> error(Error("UnknownNative", piece.name))
       [] piece.kind = "NATIVE" /\ named # 0 ->
            text(IF piece.alias = <<>> THEN decls[named]
                 ELSE alias_line(decls[named], piece.name, piece.alias), {named})
       [] piece.kind = "CALLBACKS" -> text(FlattenSeq(SetToSeq(forwards)), {})
       [] piece.kind = "VAR" -> error(Error("UnknownPlaceholder", None))
       [] piece.kind = "UNCLOSED" -> error(Error("UnclosedPlaceholder", None))

\* A placeholder that becomes `e`, in which `names` are declared.
Expanded(state, e, names) ==
  [state EXCEPT !.out = @ \o e.text \o <<"\n">>,
                !.placed = @ \cup e.places,
                !.emitted = @ \cup Range(names),
                !.errors = @ \cup e.errors \cup
                  {Error("PlacedTwice", names[i]) :
                     i \in {j \in DOMAIN names : \/ names[j] \in state.emitted
                                                 \/ \E k \in 1 .. j - 1 : names[k] = names[j]}}]

NamesIn(declared) == [i \in DOMAIN declared |-> declared[i].name]
Expand(state, e) == Expanded(state, e, NamesIn(parse(e.text)))

\* One piece of the template, as it is read.
RenderPiece(state, piece) ==
  IF IsPlaceholder(piece) THEN Expand(state, expand(piece, state.placed))
  ELSE [state EXCEPT !.out = @ \o Written(piece) \o <<"\n">>]

Rendered(end) ==
  [out |-> end.out,
   errors |-> end.errors \cup {Error("NativeNotPlaced", natives[i].name) :
                                 i \in DOMAIN natives \ end.placed}]
render(pieces) ==
  LET read == AsRead(pieces)
      rendering[p \in 0 .. Len(read)] ==
        IF p = 0 THEN [out |-> <<>>, placed |-> {}, emitted |-> {}, errors |-> {}]
        ELSE RenderPiece(rendering[p - 1], read[p])
  IN Rendered(rendering[Len(read)])

Text(pieces) == FlattenSeq([p \in DOMAIN pieces |-> Append(Written(pieces[p]), "\n")])

CompareText(text) ==
  compare_declarations(parse(text), registered(native_decls)) \cup missing_forwards(text)

Compare(rendered) ==
  IF rendered.errors = {} THEN CompareText(rendered.out)
  ELSE {[kind |-> "Template", problem |-> e] : e \in rendered.errors}

compare_with(pieces) ==
  Compare(IF IsTemplate(pieces) THEN render(pieces) ELSE [out |-> Text(pieces), errors |-> {}])

-----------------------------------------------------------------------------
(* External: the author, who edits either side. *)

SizeIsLast(arguments, open) ==
  \A i \in DOMAIN arguments : arguments[i].addition = "size" => i = Len(arguments) /\ ~open

SizesEndLists ==
  /\ \A i \in DOMAIN natives : SizeIsLast(natives[i].args, natives[i].varargs)
  /\ \A p \in DOMAIN source : ~IsPlaceholder(source[p]) =>
       SizeIsLast(source[p].decl.arguments, source[p].decl.variadic)

RustTypes == {"i32", "f32", "bool", "AmxString", "Buffer", "Ref<i32>", "Ref<f32>"}
Native == [name : Names, returns : RustTypes, varargs : BOOLEAN, raw : BOOLEAN,
           args : Seq([type : RustTypes, addition : {"none"} \cup Additions])]

ASSUME PawnIncludeAssumption ==
  /\ (Names \cup Callbacks) \cap Words = {}
  /\ IsFiniteSet(Callbacks)
  /\ Types \subseteq RustTypes
  /\ Additions \subseteq {"none", "value", "list", "size"}
  /\ SizeEndsList \in BOOLEAN /\ {MaxArgs, MaxPieces, MaxEdits} \subseteq Nat
  /\ Crate \in Seq(Native)
  /\ \A i, j \in DOMAIN Crate : Crate[i].name = Crate[j].name => i = j
  /\ \A i \in DOMAIN Crate :
       /\ Len(Crate[i].args) <= MaxArgs
       /\ SizeEndsList => SizeIsLast(Crate[i].args, Crate[i].varargs)

\* A native as it is now, written out by hand.
ByHand(native) == [kind |-> "native", comment |-> "none", decl |-> Derived(native)]

\* Nothing yet, or an include that is kept by hand and right.
Init ==
  /\ natives = Crate
  /\ source \in {<<>>, [i \in DOMAIN Crate |-> ByHand(Crate[i])]}
  /\ edits = 0

Edited ==
  /\ edits < MaxEdits
  /\ edits' = edits + 1

Rename(i, name) ==
  /\ \A j \in DOMAIN natives : natives[j].name # name
  /\ natives' = [natives EXCEPT ![i].name = name]
  /\ UNCHANGED source

Returns(i, type) ==
  /\ natives' = [natives EXCEPT ![i].returns = type]
  /\ UNCHANGED source

AddArgument(i, type) ==
  /\ Len(natives[i].args) < MaxArgs
  /\ natives' = [natives EXCEPT ![i].args = Append(@, [type |-> type, addition |-> "none"])]
  /\ UNCHANGED source

DropArgument(i, j) ==
  /\ natives' = [natives EXCEPT ![i].args = RemoveAt(@, j)]
  /\ UNCHANGED source

Annotate(i, j, addition) ==
  /\ natives' = [natives EXCEPT ![i].args[j].addition = addition]
  /\ UNCHANGED source

OpenList(i) ==
  /\ natives' = [natives EXCEPT ![i].varargs = TRUE]
  /\ UNCHANGED source

MakeRaw(i) ==
  /\ natives' = [natives EXCEPT ![i].raw = TRUE]
  /\ UNCHANGED source

Add(piece) ==
  /\ Len(source) < MaxPieces
  /\ source' = Append(source, piece)
  /\ UNCHANGED natives

\* Under its name or another.
WriteOut(i, alias) ==
  Add(IF alias = None THEN ByHand(natives[i])
      ELSE [ByHand(natives[i]) EXCEPT !.decl = Aliased(@, alias)])

WriteForward(c) ==
  Add([kind |-> "forward", comment |-> "none",
       decl |-> [tag |-> None, name |-> c, arguments |-> <<>>, variadic |-> FALSE,
                 implemented_by |-> None]])

Change(p, piece) ==
  /\ source' = [source EXCEPT ![p] = piece]
  /\ UNCHANGED natives

CommentOut(p, comment) ==
  /\ ~IsPlaceholder(source[p])
  /\ Change(p, [source[p] EXCEPT !.comment = comment])

Decorate(p, j, addition) ==
  Change(p, [source[p] EXCEPT !.decl.arguments[j].addition = addition])

\* The list stops short, with varargs for the rest.
Opened(d) == [d EXCEPT !.arguments = Front(@), !.variadic = TRUE]
LeaveOpen(p) ==
  /\ ~IsPlaceholder(source[p])
  /\ source[p].decl.arguments # <<>>
  /\ Change(p, [source[p] EXCEPT !.decl = Opened(@)])

Aliases == {<<>>} \cup {<<n>> : n \in Names}
Placeholders ==
  [kind : {"NATIVES", "CALLBACKS", "VAR", "UNCLOSED"}]
    \cup [kind : {"NATIVE", "UNCLOSED NATIVE"}, name : Names, alias : Aliases]

RustSide ==
  \E i \in DOMAIN natives :
    \/ \E name \in Names : Rename(i, name)
    \/ \E type \in {"i32", "f32", "bool"} : Returns(i, type)
    \/ \E type \in Types : AddArgument(i, type)
    \/ \E j \in DOMAIN natives[i].args : DropArgument(i, j)
    \/ \E j \in DOMAIN natives[i].args, a \in Additions : Annotate(i, j, a)
    \/ OpenList(i)
    \/ MakeRaw(i)

Arguments(piece) == IF IsPlaceholder(piece) THEN {} ELSE DOMAIN piece.decl.arguments

IncludeSide ==
  \/ \E i \in DOMAIN natives, alias \in Names \cup {None} : WriteOut(i, alias)
  \/ \E c \in Callbacks : WriteForward(c)
  \/ \E piece \in Placeholders : Add(piece)
  \/ \E p \in DOMAIN source, comment \in {"line", "block"} : CommentOut(p, comment)
  \/ \E p \in DOMAIN source : \E j \in Arguments(source[p]), a \in Additions : Decorate(p, j, a)
  \/ \E p \in DOMAIN source : LeaveOpen(p)

Next ==
  /\ Edited
  /\ RustSide \/ IncludeSide
  /\ SizeEndsList => SizesEndLists'

Spec == Init /\ [][Next]_vars

-----------------------------------------------------------------------------
(* What the check has to find, on declarations instead of text. *)

Read == AsRead(source)

Named(pieces) == {pieces[p].name : p \in {q \in DOMAIN pieces : pieces[q].kind = "NATIVE"}}
Collects(pieces) == \E p \in DOMAIN pieces : pieces[p].kind = "NATIVES"

\* The live declarations piece p puts into the include.
DeclaredBy(p) ==
  LET piece == Read[p]
      before == SubSeq(Read, 1, p - 1)
      derived == {n \in Range(natives) : ~n.raw}
  IN CASE piece.kind = "native" -> OneIf(piece.comment = "none", piece.decl)
       [] piece.kind = "NATIVES" ->
            IF Collects(before) THEN {}
            ELSE {Derived(n) : n \in {m \in derived : m.name \notin Named(before)}}
       [] piece.kind = "NATIVE" /\ piece.alias = <<>> ->
            {Derived(n) : n \in {m \in derived : m.name = piece.name}}
       [] piece.kind = "NATIVE" /\ piece.alias # <<>> ->
            {Aliased(Derived(n), piece.alias[1]) :
               n \in {m \in derived : m.name = piece.name}}
       [] OTHER -> {}

Declared == UNION {DeclaredBy(p) : p \in DOMAIN Read}

Shapes(arguments) ==
  [i \in DOMAIN arguments |->
     <<arguments[i].tag, arguments[i].by_reference, arguments[i].array>>]

\* Where a script that includes this would be told something else than the
\* plugin does.
Drift ==
  LET stands(d, n) == n.name = IF d.implemented_by = None THEN d.name ELSE d.implemented_by
      behind(d) == {n \in Range(natives) : stands(d, n)}
      known == {k \in Declared \X Range(natives) : stands(k[1], k[2]) /\ ~k[2].raw}
      differs(d, n, i) == /\ i \in DOMAIN d.arguments /\ i \in DOMAIN n.args
                          /\ Shapes(d.arguments)[i] # Shapes(Derived(n).arguments)[i]
  IN {Finding("MissingFromInclude", n.name, 0) :
        n \in {m \in Range(natives) : \A d \in Declared : m \notin behind(d)}}
     \cup {Finding("NotRegistered", d.name, 0) : d \in {e \in Declared : behind(e) = {}}}
     \cup {Finding("ReturnTag", k[1].name, 0) :
             k \in {l \in known : l[1].tag # tag_of(l[2].returns)}}
     \cup {Finding("Arity", k[1].name, 0) :
             k \in {l \in known : ~l[1].variadic /\ Len(l[1].arguments) # Len(l[2].args)}}
     \cup {Finding("ArgumentShape", k[1][1].name, k[2]) :
             k \in {l \in known \X (1 .. MaxArgs) : differs(l[1][1], l[1][2], l[2])}}

NotForwarded ==
  LET forwards(p) == \/ Read[p].kind = "CALLBACKS"
                     \/ Read[p].kind = "forward" /\ Read[p].comment = "none"
      by(p) == IF Read[p].kind = "CALLBACKS" THEN Callbacks ELSE {Read[p].decl.name}
  IN Callbacks \ UNION {by(p) : p \in {q \in DOMAIN Read : forwards(q)}}

\* An alias that is not closed takes what follows for its name, and nothing is
\* wrong with it for `render`.
AliasRunsOn ==
  \E p \in DOMAIN Read : /\ Read[p].kind = "NATIVE" /\ Read[p].alias \notin Aliases
                        /\ \E n \in Range(natives) : n.name = Read[p].name

\* What is wrong with the placeholders of a template.
Causes ==
  LET names == {n.name : n \in Range(natives)}
      kinds == {Read[p].kind : p \in DOMAIN Read}
      declares(p) == IF IsPlaceholder(Read[p]) THEN {d.name : d \in DeclaredBy(p)} ELSE {}
  IN OneIf("UNCLOSED" \in kinds \/ AliasRunsOn, Error("UnclosedPlaceholder", None))
       \cup OneIf("VAR" \in kinds, Error("UnknownPlaceholder", None))
       \cup {Error("UnknownNative", n) : n \in Named(Read) \ names}
       \cup {Error("NativeNotPlaced", n) :
               n \in IF Collects(Read) THEN {} ELSE names \ Named(Read)}
       \cup {Error("PlacedTwice", n) :
               n \in {m \in Names : \E p, q \in DOMAIN Read :
                                      p < q /\ m \in declares(p) /\ m \in declares(q)}}

\* Whatever both sides became, the check says what is missing, extra or
\* different, of an include and of what a template renders to, and is quiet about
\* what only an include can say: defaults, sizes, varargs, aliases, comments
\* (compare_with, with the declarations #[native] derived).
FindingsAreTheDrift ==
  ~IsTemplate(source) \/ Causes = {} =>
    compare_with(source) = Drift \cup {Finding("CallbackNotForwarded", c, 0) : c \in NotForwarded}

\* A template is refused for each thing wrong with its placeholders and for nothing
\* else: a native none of them places, one that does not exist, one that two of
\* them declare under the same name, an unknown placeholder, a {{ with no }} behind
\* it (Template::render).  What is declared by hand beside them is not looked at.
RefusedForCause == IsTemplate(source) /\ ~AliasRunsOn => render(source).errors = Causes

\* Not so: a {{NATIVE:... as ... with no }} of its own, known and followed by
\* another placeholder, is no error (PawnIncludeOpen.cfg).
OpenIsRefused ==
  (\E p \in DOMAIN source : source[p].kind \in OpenKinds) => render(source).errors # {}

\* Not so: what "Pawn rejects ... as a symbol that is already defined"
\* (pawn_include.rs:1205) is an error only between placeholders
\* (PawnIncludeTwice.cfg).
NoneTwice ==
  IsTemplate(source) /\ render(source).errors = {} =>
    \A i, j \in DOMAIN parse(render(source).out) :
      parse(render(source).out)[i].name = parse(render(source).out)[j].name => i = j
=============================================================================
