---------------------------- MODULE ContentContext ----------------------------
(***************************************************************************)
(* AbstractContentContextDriver: the operators and the drawing commands    *)
(* that JavaScript writes into the content of a page or a form, with what  *)
(* AbstractContentContext below it keeps: the stack of graphic states,     *)
(* each remembering the font that text is to be shown with and the Tf that *)
(* was last placed.  The other side is what a reader of the content makes  *)
(* of it: the kind of object it is in, and its own stack of fonts.         *)
(*                                                                         *)
(* Of an operator's operands the model keeps whether the driver accepts    *)
(* them.  Coordinates, colour values and characters are left out.          *)
(***************************************************************************)
EXTENDS ResourcesDictionary, Sequences

CONSTANTS
    Fonts,              \* PDFUsedFont objects
    Representations,    \* the written fonts of one: simple and CID
    Wide,               \* those of two bytes a character, shown in hexadecimal
    FontObject,         \* [Fonts -> [Representations -> ID]]
    Sizes,              \* font sizes
    Images,             \* IDs of the images that are drawn
    Forms,              \* IDs of the forms that are drawn
    DrawingOptions,     \* the options objects that are passed to commands
    Arguments,          \* the argument lists that are tried
    ClientMappings,     \* <<kind, ID>> that the client names itself
    ClientNames,        \* names of fonts that the client places itself
    MaxDepth,           \* bound on nested q
    MaxCount            \* bound on the names of one kind

NoFont == "no font"
Absent == "absent"      \* an option that is not there
Unset == <<"unset", 0>> \* the name of a font when none is placed yet

ASSUME ContentAssumption ==
    /\ FontObject \in [Fonts -> [Representations -> Nat \ {NoID}]]
    /\ Sizes \subseteq Nat
    /\ NoFont \notin Fonts
    /\ Wide \subseteq Representations
    /\ Images \cup Forms \subseteq Nat \ {NoID}
    /\ ClientMappings \subseteq Kinds \X Nat
    /\ \A o \in DrawingOptions : o.font \in Fonts \cup {NoFont} /\ o.size \in Nat
    /\ MaxDepth \in Nat

VARIABLES
    hasContext,     \* GetContext(): a wrapper the client made has none
    content,        \* what is written and what is kept of it
    last            \* the call that was made last

vars == <<hasContext, content, last>>

--------------------------------------------------------------------------------
(* What a reader of the content does with an operator: it is at page level, *)
(* in a path, after a clipping operator, or in a text object.               *)

PathStarts == {"m", "re"}
PathParts == {"l", "c", "v", "y", "h"}
Clippings == {"W", "WStar"}
Paintings == {"b", "B", "bStar", "BStar", "s", "S", "f", "F", "fStar", "n"}
PageOperators == {"q", "Q", "cm", "Do"}
StateOperators == {"w", "J", "j", "M", "d", "ri", "i", "gs"}
ColorOperators ==
    {"CS", "cs", "SC", "SCN", "sc", "scn", "G", "g", "RG", "rg", "K", "k"}
TextStateOperators == {"Tc", "Tw", "Tz", "TL", "Tr", "Ts", "Tf"}
PositionOperators == {"Td", "TD", "Tm", "TStar"}
ShowOperators == {"Tj", "Quote", "DoubleQuote", "TJ"}

AnywhereButPaths == StateOperators \cup ColorOperators \cup TextStateOperators

Read(level, op) ==
    CASE op \in PathStarts /\ level \in {"page", "path"} -> "path"
      [] op \in PathParts /\ level = "path" -> "path"
      [] op \in Clippings /\ level = "path" -> "clip"
      [] op \in Paintings /\ level \in {"path", "clip"} -> "page"
      [] op \in PageOperators /\ level = "page" -> "page"
      [] op \in AnywhereButPaths /\ level \in {"page", "text"} -> level
      [] op = "BT" /\ level = "page" -> "text"
      [] op = "ET" /\ level = "text" -> "page"
      [] op \in PositionOperators \cup ShowOperators /\ level = "text" -> "text"
      [] OTHER -> "broken"

Levels == {"page", "path", "clip", "text", "broken"}

ReadAll(level, ops) ==
    LET after[n \in 0..Len(ops)] ==
            IF n = 0 THEN level ELSE Read(after[n - 1], ops[n])
    IN  after[Len(ops)]

\* A client that writes an operator where the content may have it.
MayWrite(op) == Read(content.level, op) # "broken"

--------------------------------------------------------------------------------
(* AbstractContentContext.  The content is a record of the stack of graphic *)
(* states, the reader's level and stack of fonts, and the resources.        *)

GraphicState == [font |-> NoFont, size |-> 0, placedName |-> Unset, placedSize |-> 0]

NewContent ==
    [stack |-> <<GraphicState>>,
     level |-> "page",
     read |-> <<[name |-> Unset, size |-> 0]>>,
     resources |-> EmptyResources,
     uses |-> {}]

Top(s) == s[Len(s)]
WithTop(s, x) == [s EXCEPT ![Len(s)] = x]

Wrote(c, ops) == [c EXCEPT !.level = ReadAll(c.level, ops)]

Pushed(c) ==
    [Wrote(c, <<"q">>) EXCEPT !.stack = Append(@, Top(@)),
                              !.read = Append(@, Top(@))]

\* A stack that may be emptied.
Popped_ToTheBottom(c) ==
    [Wrote(c, <<"Q">>) EXCEPT !.stack = SubSeq(@, 1, Len(@) - 1),
                              !.read = SubSeq(@, 1, Len(@) - 1)]

\* The first graphic state stays; a reader has nothing to restore there.
Popped(c) ==
    IF Len(c.stack) = 1 THEN Wrote(c, <<"Q">>)
    ELSE [Wrote(c, <<"Q">>) EXCEPT !.stack = SubSeq(@, 1, Len(@) - 1),
                                   !.read = SubSeq(@, 1, Len(@) - 1)]

\* TfLow, the operator itself.
Placed(c, name, size) ==
    [Wrote(c, <<"Tf">>) EXCEPT
        !.stack = WithTop(@, [Top(@) EXCEPT !.placedName = name, !.placedSize = size]),
        !.read = WithTop(@, [name |-> name, size |-> size])]

\* Tf with a font: nothing is written before there is text to show.
Chosen(c, font, size) ==
    [c EXCEPT !.stack = WithTop(@, [Top(@) EXCEPT !.font = font, !.size = size])]

\* A name is asked for, and used, for an object.  The resources are written
\* when the page is, so that the name has to keep its meaning until then.
Use(c, kind, id) ==
    [category |-> MapOf(kind), name |-> NameFor(c.resources, kind, id), id |-> id]

Named(c, kind, id) ==
    [c EXCEPT !.resources = AddMapping(@, kind, id),
              !.uses = @ \cup {Use(c, kind, id)}]

\* A Tf that looks at the name only.
NeedsPlacing_NameOnly(state, name) == state.placedName # name

NeedsPlacing(state, name) ==
    state.placedName # name \/ state.placedSize # state.size

\* The font is placed if it is not the one that was placed last.
Prepared(c, id) ==
    LET name == NameFor(c.resources, "Font", id)
        named == Named(c, "Font", id)
    IN  IF NeedsPlacing(Top(c.stack), name)
        THEN Placed(named, name, Top(c.stack).size)
        ELSE named

\* Text that encodes to nothing, or that no font was chosen for, is not
\* written.
IsShown(c, representation) ==
    representation # "none" /\ Top(c.stack).font # NoFont

ShownID(c, representation) == FontObject[Top(c.stack).font][representation]

\* QuoteHexLow ends its string with a word that is no operator.
NoOperator == "no operator"

Keyword(op, isHex) == IF isHex /\ op = "Quote" THEN NoOperator ELSE op

Shown(c, op, representation) ==
    IF IsShown(c, representation)
    THEN Wrote(Prepared(c, ShownID(c, representation)),
               <<Keyword(op, representation \in Wide)>>)
    ELSE c

--------------------------------------------------------------------------------
(* The driver.  Arguments are sequences of kinds of JavaScript values.      *)

Numbers(n) == [k \in 1..n |-> "number"]

\* What the properties ask of a call: whether it is a drawing command, one that
\* leaves its path open among them, and the font object it showed text with.
Quiet == [command |-> "operator", font |-> NoID]

\* An exception is set before anything is written.
Throws ==
    /\ last' = Quiet
    /\ UNCHANGED <<hasContext, content>>

Becomes(c) ==
    /\ content' = c
    /\ last' = Quiet
    /\ UNCHANGED hasContext

\* Nearly every operator: without a context or the arguments it wants it throws.
Operator(op, accepted) ==
    IF hasContext /\ accepted
    THEN MayWrite(op) /\ Becomes(Wrote(content, <<op>>))
    ELSE Throws

\* b to n, W and WStar, BT and ET do not look at their arguments.
PaintOperator(op) == op \in Paintings /\ Operator(op, TRUE)

PointParameters ==
    [m |-> Numbers(2), l |-> Numbers(2), c |-> Numbers(6),
     v |-> Numbers(4), y |-> Numbers(4)]

PointOperator(op, args) ==
    op \in DOMAIN PointParameters /\ Operator(op, args = PointParameters[op])

CloseOrRectangle(op, args) ==
    op \in {"h", "re"} /\ Operator(op, op = "re" => args = Numbers(4))

SaveState ==
    IF hasContext
    THEN MayWrite("q") /\ Len(content.stack) <= MaxDepth /\ Becomes(Pushed(content))
    ELSE Throws

RestoreState ==
    IF hasContext THEN MayWrite("Q") /\ Becomes(Popped(content)) ELSE Throws

Transform(args) == Operator("cm", args = Numbers(6))

LineOperator(op, args) == op \in {"w", "J", "j", "M"} /\ Operator(op, args = Numbers(1))

StateParameters ==
    [d |-> <<"array", "number">>, ri |-> <<"string">>, i |-> Numbers(1),
     gs |-> <<"string">>]

StateOperator(op, args) ==
    op \in DOMAIN StateParameters /\ Operator(op, args = StateParameters[op])

ColorSpaceOperator(op, args) == op \in {"CS", "cs"} /\ Operator(op, args = <<"string">>)

\* SC and sc take any components; SCN and scn a pattern's name too, after at
\* least one component.
ComponentsOperator(op, args) ==
    /\ op \in {"SC", "SCN", "sc", "scn"}
    /\ Operator(op, Len(args) > 0 /\ (op \in {"SCN", "scn"} => args # <<"string">>))

DeviceColorParameters ==
    [op \in {"G", "g", "RG", "rg", "K", "k"} |->
        Numbers(CASE op \in {"G", "g"} -> 1 [] op \in {"RG", "rg"} -> 3 [] OTHER -> 4)]

DeviceColorOperator(op, args) ==
    op \in DOMAIN DeviceColorParameters /\ Operator(op, args = DeviceColorParameters[op])

Clip(op) == op \in Clippings /\ Operator(op, TRUE)

\* The object's name when it is a form or an image; a name is written as it is.
DoXObject(kind, id) ==
    IF hasContext /\ kind \in {"string", "Form", "Image"}
    THEN /\ MayWrite("Do")
         /\ Becomes(Wrote(IF kind = "string" THEN content ELSE Named(content, kind, id),
                          <<"Do">>))
    ELSE Throws

TextStateOperator(op, args) ==
    op \in TextStateOperators \ {"Tf"} /\ Operator(op, args = Numbers(1))

TextObjectOperator(op) == op \in {"BT", "ET"} /\ Operator(op, TRUE)

PositionParameters ==
    [Td |-> Numbers(2), TD |-> Numbers(2), Tm |-> Numbers(6)]

PositionOperator(op, args) ==
    op \in PositionOperators /\ Operator(op, op # "TStar" => args = PositionParameters[op])

\* The name of a resource is placed at once, a font object when it is needed.
SetFontByName(name, size) ==
    IF hasContext THEN MayWrite("Tf") /\ Becomes(Placed(content, name, size)) ELSE Throws

SetFontObject(font, size) ==
    IF hasContext THEN Becomes(Chosen(content, font, size)) ELSE Throws

--------------------------------------------------------------------------------
(* Showing text.  The client may show it in a text object only.             *)

\* The encoding an options object asks for, and what the library makes of a
\* text: one of the written fonts, or nothing.
Encodings == {Absent, "text", "hex", "code"}
Encoded == Representations \cup {"none"}

\* The two comparisons are the wrong way round: "hex" is taken for code and
\* everything else for hex.
ObjectToOptions(encoding) ==
    CASE encoding = Absent -> "text"
      [] encoding = "hex" -> "code"
      [] OTHER -> "hex"

ShowParameters ==
    [op \in {"Tj", "Quote", "DoubleQuote"} |->
        LET spacing == IF op = "DoubleQuote" THEN Numbers(2) ELSE <<>>
            text == {<<"string">>, <<"array">>}
            options == {<<>>, <<"object">>, <<"array">>}
        IN  {spacing \o t \o o : t \in text, o \in options}]

Shows(c, op, representation) ==
    /\ content' = Shown(c, op, representation)
    /\ last' = [Quiet EXCEPT !.font =
                    IF IsShown(c, representation) THEN ShownID(c, representation) ELSE @]
    /\ UNCHANGED hasContext

\* Glyphs, and strings that the library is to encode, need the font; strings
\* that are encoded already are written as they are.
ShowText(op, args) ==
    /\ op \in DOMAIN ShowParameters
    /\ IF hasContext /\ args \in ShowParameters[op]
       THEN /\ MayWrite(op)
            /\ \E encoding \in Encodings, representation \in Encoded :
                IF "string" \notin {args[k] : k \in DOMAIN args}
                   \/ ObjectToOptions(encoding) = "text"
                THEN Shows(content, op, representation)
                ELSE Becomes(Wrote(content,
                                   <<Keyword(op, ObjectToOptions(encoding) = "hex")>>))
       ELSE Throws

\* Strings and numbers with an options object at the end, which may be an
\* array; or lists of glyphs and numbers, and then no options.
HasStrings(args) == "string" \in {args[k] : k \in DOMAIN args}

HasOptions(args) == args # <<>> /\ args[Len(args)] \in {"array", "object"}

AcceptsStrings(args) ==
    LET n == IF HasStrings(args) /\ HasOptions(args) THEN Len(args) - 1 ELSE Len(args)
        wanted == IF HasStrings(args) THEN {"string", "number"} ELSE {"array", "number"}
    IN  \A k \in 1..n : args[k] \in wanted

ShowStrings(args) ==
    IF hasContext /\ AcceptsStrings(args)
    THEN /\ MayWrite("TJ")
         /\ \E encoding \in Encodings, representation \in Encoded :
            IF HasStrings(args) /\ ObjectToOptions(encoding) # "text"
            THEN Becomes(Wrote(content, <<"TJ">>))
            ELSE /\ args = Numbers(Len(args)) => representation = "none"
                 /\ Shows(content, "TJ", representation)
    ELSE Throws

\* The client's own code, here code that leaves the font and the states alone.
WriteFreeCode(args) == Operator("w", args = <<"string">>)

--------------------------------------------------------------------------------
(* Drawing commands: several operators at once, from page level.  Options   *)
(* are <<>> or <<an options object>>.                                       *)

NoOptions ==
    [type |-> Absent, color |-> Absent, width |-> FALSE, close |-> FALSE,
     font |-> NoFont, size |-> 0, underline |-> FALSE]

OptionsIn(options) == IF options = <<>> THEN NoOptions ELSE options[1]

\* A name and a number without colorspace are RGB; in an unknown one the
\* colour stays.
SetColor(o, isStroke) ==
    CASE o.color = "rgb" -> IF isStroke THEN <<"RG">> ELSE <<"rg">>
      [] o.color = "cmyk" -> IF isStroke THEN <<"K">> ELSE <<"k">>
      [] o.color = "gray" -> IF isStroke THEN <<"G">> ELSE <<"g">>
      [] OTHER -> <<>>

SetupColorAndLineWidth(o) ==
    LET isStroke == o.type \in {Absent, "stroke"}
    IN  SetColor(o, isStroke) \o (IF isStroke /\ o.width THEN <<"w">> ELSE <<>>)

\* A stroke that is not made.
FinishPath_NoStroke(o) ==
    CASE o.type = Absent -> <<"h">>
      [] o.type = "stroke" -> <<IF o.close THEN "s" ELSE "S">>
      [] o.type = "fill" -> <<"f">>
      [] o.type = "clip" -> <<>>
      [] OTHER -> IF o.close THEN <<"h", "W">> ELSE <<"W">>

\* The comparison with "clip" is the wrong way round: nothing is written for that
\* type, and every type that there is not clips.
FinishPath(o) ==
    CASE o.type \in {Absent, "stroke"} -> <<IF o.close THEN "s" ELSE "S">>
      [] o.type = "fill" -> <<"f">>
      [] o.type = "clip" -> <<>>
      [] OTHER -> IF o.close THEN <<"h", "W">> ELSE <<"W">>

Paints(o) == o.type \in {Absent, "stroke", "fill"}

\* A command that was given arguments enough; c is what it makes of the content
\* and font the object it showed text with.
Command(command, accepted, c, font) ==
    IF hasContext /\ accepted
    THEN /\ content.level = "page"
         /\ content' = c
         /\ last' = [command |-> command, font |-> font]
         /\ UNCHANGED hasContext
    ELSE Throws

Outlined(outline, options) ==
    LET o == OptionsIn(options)
    IN  Wrote(content, SetupColorAndLineWidth(o) \o outline \o FinishPath(o))

Outlines(accepted, outline, options) ==
    Command(IF Paints(OptionsIn(options)) THEN "drawing" ELSE "open",
            accepted, Outlined(outline, options), NoID)

\* n coordinates.  A last one without a partner is left out, unless options
\* follow it.
Lines(n, length) == Cardinality({k \in 1..n : 2 * k < n /\ 2 * k < length - 1})

DrawPath(n, options) ==
    LET length == n + Len(options)
    IN  Outlines(length >= 2, <<"m">> \o [k \in 1..Lines(n, length) |-> "l"], options)

DrawCircle(n, options) ==
    Outlines(n + Len(options) >= 3, <<"m", "c", "c", "c", "c">>, options)

DrawSquare(n, options) == Outlines(n + Len(options) >= 3, <<"re">>, options)

DrawRectangle(n, options) == Outlines(n + Len(options) >= 4, <<"re">>, options)

\* The size is 1 when the options name a font and no size.
SetFont(c, o) ==
    IF o.font = NoFont THEN c ELSE Chosen(c, o.font, IF o.size = 0 THEN 1 ELSE o.size)

Begun(o) == Wrote(SetFont(Wrote(content, <<"BT">> \o SetColor(o, FALSE)), o), <<"Tm">>)

Underlined(c, o) ==
    IF o.underline /\ o.font # NoFont
    THEN Wrote(c, SetColor(o, TRUE) \o <<"w", "m", "l", "S">>)
    ELSE c

\* The options are looked for behind three arguments only.
WriteText(n, options, representation) ==
    LET o == IF n = 3 THEN OptionsIn(options) ELSE NoOptions
        begun == Begun(o)
    IN  Command("drawing", n + Len(options) >= 3,
                Underlined(Wrote(Shown(begun, "Tj", representation), <<"ET">>), o),
                IF IsShown(begun, representation) THEN ShownID(begun, representation)
                ELSE NoID)

\* Whatever the file holds, its object is named as a form.
DrawImage(args, id) ==
    Command("drawing",
            args \in {<<"number", "number", "string">>,
                      <<"number", "number", "string", "object">>},
            Popped(Wrote(Named(Wrote(Pushed(content), <<"cm">>), "Form", id), <<"Do">>)),
            NoID)

--------------------------------------------------------------------------------
(* ResourcesDictionaryDriver: the client asks for a name itself.            *)

AddClientMapping(kind, id, args) ==
    IF args = <<"number">> \/ (kind = "Image" /\ args = <<"object">>)
    THEN /\ content.resources.counts[kind] < MaxCount
         /\ Becomes([content EXCEPT !.resources = AddMapping(@, kind, id)])
    ELSE Throws

--------------------------------------------------------------------------------
Init ==
    /\ hasContext \in BOOLEAN
    /\ content = NewContent
    /\ last = Quiet

Options == {<<>>} \cup {<<o>> : o \in DrawingOptions}

Operators ==
    \/ \E op \in Paintings : PaintOperator(op)
    \/ \E op \in Clippings : Clip(op)
    \/ \E op \in {"BT", "ET"} : TextObjectOperator(op)
    \/ SaveState
    \/ RestoreState
    \/ \E args \in Arguments :
        \/ \E op \in PathStarts \cup PathParts :
            PointOperator(op, args) \/ CloseOrRectangle(op, args)
        \/ Transform(args)
        \/ \E op \in StateOperators : LineOperator(op, args) \/ StateOperator(op, args)
        \/ \E op \in ColorOperators :
            \/ ColorSpaceOperator(op, args)
            \/ ComponentsOperator(op, args)
            \/ DeviceColorOperator(op, args)
        \/ \E op \in TextStateOperators : TextStateOperator(op, args)
        \/ \E op \in PositionOperators : PositionOperator(op, args)
        \/ WriteFreeCode(args)

Texts ==
    \/ \E size \in Sizes :
        \/ \E name \in ClientNames : SetFontByName(name, size)
        \/ \E font \in Fonts : SetFontObject(font, size)
    \/ \E args \in Arguments :
        \/ \E op \in ShowOperators : ShowText(op, args)
        \/ ShowStrings(args)

Commands ==
    \/ \E kind \in {"string", "Form", "Image", "object"}, id \in Forms \cup Images :
        DoXObject(kind, id)
    \/ \E n \in 2..4, options \in Options :
        \/ DrawPath(n, options)
        \/ DrawCircle(n, options)
        \/ DrawSquare(n, options)
        \/ DrawRectangle(n, options)
        \/ \E representation \in Encoded :
            WriteText(n, options, representation)
    \/ \E args \in Arguments, id \in Images : DrawImage(args, id)
    \/ \E mapping \in ClientMappings, args \in Arguments :
        AddClientMapping(mapping[1], mapping[2], args)

Next == Operators \/ Texts \/ Commands

Spec == Init /\ [][Next]_vars

--------------------------------------------------------------------------------
(* Properties.                                                              *)

Names == (Kinds \X Nat) \cup ClientNames \cup {Unset}

IDs == (UNION {{FontObject[f][r] : r \in Representations} : f \in Fonts})
       \cup Images \cup Forms \cup {m[2] : m \in ClientMappings}

States == [font : Fonts \cup {NoFont}, size : Nat, placedName : Names, placedSize : Nat]

\* The types of everything that is kept of a content stream, and the two stacks
\* of graphic states having the same height, which is never 0.
TypeOK ==
    /\ hasContext \in BOOLEAN
    /\ content.stack \in Seq(States)
    /\ content.read \in Seq([name : Names, size : Nat])
    /\ Len(content.read) = Len(content.stack)
    /\ Len(content.stack) \in 1..MaxDepth + 1
    /\ content.level \in Levels
    /\ \A c \in Categories : DOMAIN content.resources.maps[c] \subseteq IDs
    /\ content.resources.counts \in [Kinds -> Nat]
    /\ last.command \in {"operator", "drawing", "open"}

Meanings(category, name) ==
    {id \in DOMAIN content.resources.maps[category] :
        content.resources.maps[category][id] = name}

\* When a string is written with a font object, a reader of the content has the font
\* placed that stands for this object and no other, in the size that was chosen,
\* whatever q, Q, Tf by name and by object came before (the test for an already
\* placed font in WriteTextCommandWithDirectGlyphSelection and TJ).
FontInEffect ==
    last.font # NoID =>
        /\ Top(content.read).size = Top(content.stack).size
        /\ Meanings("Font", Top(content.read).name) = {last.font}

\* Each name the driver or the library wrote for an object stands for that
\* object and no other as long as names are added, although the resources are
\* written only with the page and three counters share the XObjects' map.
NamesKeepTheirMeaning ==
    \A u \in content.uses : Meanings(u.category, u.name) = {u.id}

\* A drawing command leaves the content at page level, or, when its options ask
\* for a path that is neither stroked nor filled, in that path and behind its
\* clipping operator, so that the client's own painting operator ends it; the
\* stack's height and the states of the levels below are as they were.
DrawingCommandsAreWhole ==
    [][last'.command # "operator" =>
        /\ last'.command = "drawing" => content'.level = "page"
        /\ last'.command = "open" => content'.level \in {"path", "clip"}
        /\ Len(content'.stack) = Len(content.stack)
        /\ \A k \in 1..Len(content.stack) - 1 :
            /\ content'.stack[k] = content.stack[k]
            /\ content'.read[k] = content.read[k]]_vars
================================================================================
