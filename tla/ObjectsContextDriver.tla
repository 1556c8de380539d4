------------------------ MODULE ObjectsContextDriver ------------------------
(***************************************************************************)
(* The program writes objects of its own: the object of the writer's       *)
(* objects context, the dictionaries and the streams it starts there, and  *)
(* those that it is handed. The objects of the library and of the program  *)
(* follow each other in one file:                                          *)
(*                                                                         *)
(*   out     what was started and not ended, the outermost first, and      *)
(*           whether all of it was started where it may be                 *)
(*   busy    what the program takes itself to be writing in: contexts and  *)
(*           forms that it drew on, an object of its own, the listener     *)
(***************************************************************************)
EXTENDS Natives, SequencesExt

CONSTANT MaxDepth   \* bound on what the program starts within each other

ASSUME DepthAssumption == MaxDepth \in Nat

VARIABLES out, busy

Own == -1         \* an indirect object of the program
Listening == -2   \* the program is called to complete a dictionary
Waiting == -3     \* the program waits for a call to return

Object == <<"object", None>>
Array == <<"array", None>>
Dictionary(d) == <<"dictionary", d>>
Stream(s) == <<"stream", s>>

Top(o) == IF o.open = <<>> THEN <<"file", None>> ELSE Last(o.open)
Opened(o, x, where) ==
    [open |-> Append(o.open, x), sound |-> o.sound /\ Top(o)[1] \in where]
\* What was left open within x stays there.
Closed(o, x) ==
    [open |-> IF Top(o) = x THEN Front(o.open) ELSE o.open, sound |-> o.sound /\ Top(o) = x]

WholeObject(o) == [o EXCEPT !.sound = @ /\ o.open = <<>>]
ObjectStarted(o) == Opened(o, Object, {"file"})
ObjectEnded(o) == Closed(o, Object)
DictionaryStarted(o, d) == Opened(o, Dictionary(d), {"object", "dictionary", "array"})
StreamStarted(o, s) == Opened(o, Stream(s), {"object"})
\* The object of a stream ends with it; one for its length follows.
StreamEnded(o, s) == WholeObject(ObjectEnded(Closed(o, Stream(s))))

\* mDictionaryStack
InnermostDictionary(o) ==
    LET i == SelectLastInSeq(o.open, LAMBDA x : x[1] = "dictionary")
    IN  IF i = 0 THEN None ELSE o.open[i][2]

\* What is read when something is written: the proxy of the stream, too.
Writer == Reach(session.writer)

IsRunning == session.state = "on" /\ Of("PDFWriter") # {}
\* The program writes in what is open.
IsWriting == IsRunning /\ busy \in {{Own}, {Listening}}

-----------------------------------------------------------------------------
StartNewIndirectObject ==
    /\ IsRunning /\ busy = {}
    /\ Touches(Writer)
    /\ out' = ObjectStarted(out) /\ busy' = {Own}
    /\ UNCHANGED <<heap, wrappers, registered, session, thrown>>

EndIndirectObject ==
    /\ IsRunning /\ busy = {Own} /\ Top(out) = Object
    /\ Touches(Writer)
    /\ out' = ObjectEnded(out) /\ busy' = {}
    /\ UNCHANGED <<heap, wrappers, registered, session, thrown>>

StartDictionary ==
    /\ IsWriting /\ Top(out)[1] # "stream" /\ Len(out.open) < MaxDepth /\ Room(1)
    /\ Touches(Writer)
    /\ heap' = Created(heap, <<Native("dictionary", None, {})>>)
    /\ wrappers' = wrappers \cup {Wrap("DictionaryContext", New(1), FALSE, None)}
    /\ out' = DictionaryStarted(out, New(1))
    /\ UNCHANGED <<registered, session, thrown, busy>>

\* Only a dictionary that is the innermost one is ended, and deleted.
EndDictionary(x) ==
    /\ IsWriting /\ x.also = None /\ Top(out)[1] = "dictionary"
    /\ Touches(Writer)
    /\ Throws(InnermostDictionary(out) # x.native)
    /\ IF InnermostDictionary(out) = x.native
       THEN /\ out' = Closed(out, Dictionary(x.native))
            /\ heap' = Freed(heap, {x.native})
            /\ wrappers' = wrappers \ {x}
       ELSE UNCHANGED <<out, heap, wrappers>>
    /\ UNCHANGED <<registered, session, busy>>

StartArray ==
    /\ IsWriting /\ Top(out)[1] # "stream" /\ Len(out.open) < MaxDepth
    /\ Touches(Writer)
    /\ out' = Opened(out, Array, {"object", "dictionary", "array"})
    /\ UNCHANGED <<heap, wrappers, registered, session, thrown, busy>>

EndArray ==
    /\ IsWriting /\ Top(out) = Array
    /\ Touches(Writer)
    /\ out' = Closed(out, Array)
    /\ UNCHANGED <<heap, wrappers, registered, session, thrown, busy>>

\* Names, numbers, strings, references and comments.
WriteToken ==
    /\ IsWriting /\ Top(out)[1] # "stream"
    /\ Touches(Writer)
    /\ UNCHANGED <<heap, wrappers, registered, session, thrown, out, busy>>

\* A key or a value of a dictionary.
WriteInDictionary(x) ==
    /\ IsWriting /\ Top(out) = Dictionary(x.native)
    /\ Touches({x.native} \cup Writer)
    /\ UNCHANGED <<heap, wrappers, registered, session, thrown, out, busy>>

StartPDFStream ==
    /\ IsRunning /\ busy = {Own} /\ Top(out) = Object /\ Room(1)
    /\ Touches(Writer)
    /\ heap' = Created(heap, <<Native("stream", None, {})>>)
    /\ wrappers' = wrappers \cup {Wrap("PDFStream", New(1), TRUE, None)}
    /\ out' = StreamStarted(out, New(1))
    /\ UNCHANGED <<registered, session, thrown, busy>>

\* The dictionary that is passed ends, and goes, when the content starts.
StartPDFStreamWith(x) ==
    /\ IsRunning /\ busy = {Own} /\ out.open = <<Object, Dictionary(x.native)>> /\ Room(1)
    /\ Touches({x.native} \cup Writer)
    /\ heap' = Created(Freed(heap, {x.native}), <<Native("stream", None, {})>>)
    /\ wrappers' = (wrappers \ {x}) \cup {Wrap("PDFStream", New(1), TRUE, None)}
    /\ out' = StreamStarted(Closed(out, Dictionary(x.native)), New(1))
    /\ UNCHANGED <<registered, session, thrown, busy>>

WriteInStream(x) ==
    /\ IsRunning /\ Top(out) = Stream(x.native)
    /\ Touches({x.native} \cup Writer)
    /\ UNCHANGED <<heap, wrappers, registered, session, thrown, out, busy>>

EndPDFStream(x) ==
    /\ IsRunning /\ busy = {Own} /\ x.owns /\ Top(out) = Stream(x.native)
    /\ Touches({x.native} \cup Writer)
    /\ out' = StreamEnded(out, x.native) /\ busy' = {}
    /\ UNCHANGED <<heap, wrappers, registered, session, thrown>>
=============================================================================
