------------------------------ MODULE MCLibrary ------------------------------
(* The stateful parts of libpqxx that do not share state: a behaviour is that *)
(* of one of them, named by part, from its own initial states; the variables  *)
(* of the others stay idle.                                                   *)
EXTENDS CursorStream, Pipeline, MCOutcomes, Focus, Session, Subtransaction, Blob

CONSTANT Parts    \* the components looked at
VARIABLE part

oneVars == <<sub, blob, foc, ses>>
libVars == <<part, allVars, pipeVars, outcomeVars, oneVars>>

MCStrides == -5..5

-----------------------------------------------------------------------------
IdleStream ==
  /\ strm = [stride |-> 0, realpos |-> 0, reqpos |-> 0, done |-> FALSE]
  /\ it = [i \in Its |-> Blank] /\ head = Null
  /\ next = [i \in Its |-> Null] /\ prev = [i \in Its |-> Null]
IdleCursor ==
  /\ cur = Declared /\ last = NoCall
  /\ srv = [rows |-> 0, at |-> 0, scroll |-> FALSE, open |-> TRUE]
IdlePipeline ==
  /\ w = Fresh("work")
  /\ fate = [q \in 1..MaxQ |-> "ok"] /\ told = [q \in 1..MaxQ |-> "none"]
IdleFocus == FocusInit /\ foc.trans = [f \in Streams |-> CHOOSE t \in Transactions : TRUE]
IdleSession ==
  SessionInit /\ ses.channel = [r \in Receivers |-> CHOOSE ch \in Channels : TRUE]
IdleSub == sub = [Begun EXCEPT !.life = [k \in Objects |-> "unborn"], !.st = "idle"]
\* Over, and with no descriptor free.
IdleBlob ==
  blob = [Holding(OneOf(Ids)) EXCEPT
            !.tx = "over", !.fds = [fd \in 0..MaxFd |-> [of |-> OneOf(Ids), pos |-> 0, writes |-> FALSE]]]
Idle == "idle"

\* The part that moves starts where its module says, any other is idle.
Starts(p, itsInit, idle) == IF part = p THEN itsInit ELSE idle

LibraryInit ==
  /\ part \in Parts
  /\ CASE part = "stream" -> StreamInit
       [] part = "cursor" -> Init /\ IdleStream
       [] OTHER -> IdleCursor /\ IdleStream
  /\ Starts("pipeline", PipeInit, IdlePipeline)
  /\ Starts("outcomes", OutcomeInit,
            /\ pc = Idle /\ left = 0 /\ raised = Idle /\ kind = Idle /\ status = Idle
            /\ conn = Idle /\ asks = 0 /\ server = Idle /\ commits = 0 /\ answered = FALSE)
  /\ Starts("subtransaction", SubInit, IdleSub)
  /\ Starts("blob", BlobInit, IdleBlob)
  /\ Starts("focus", FocusInit, IdleFocus)
  /\ Starts("session", SessionInit, IdleSession)

OutcomesSteps(A) == part = "outcomes" /\ A /\ UNCHANGED <<part, allVars, pipeVars, oneVars>>

LibraryNext ==
  \/ part = "cursor" /\ Next /\ UNCHANGED <<part, streamVars, pipeVars, outcomeVars, oneVars>>
  \/ part = "stream" /\ StreamNext /\ UNCHANGED <<part, pipeVars, outcomeVars, oneVars>>
  \/ part = "pipeline" /\ PipeNext /\ UNCHANGED <<part, allVars, outcomeVars, oneVars>>
  \/ OutcomesSteps(OutcomeNext)
  \/ /\ part = "subtransaction" /\ SubNext
     /\ UNCHANGED <<part, allVars, pipeVars, outcomeVars, blob, foc, ses>>
  \/ /\ part = "blob" /\ BlobNext
     /\ UNCHANGED <<part, allVars, pipeVars, outcomeVars, sub, foc, ses>>
  \/ /\ part = "focus" /\ FocusNext
     /\ UNCHANGED <<part, allVars, pipeVars, outcomeVars, sub, blob, ses>>
  \/ /\ part = "session" /\ SessionNext
     /\ UNCHANGED <<part, allVars, pipeVars, outcomeVars, sub, blob, foc>>

\* perform goes on, and a session that was lost ends at the server: Outcomes.
LibrarySpec ==
  /\ LibraryInit /\ [][LibraryNext]_libVars
  /\ WF_libVars(OutcomesSteps(Perform)) /\ WF_libVars(OutcomesSteps(Resolves))
-----------------------------------------------------------------------------
\* The type invariant of every component.
LibraryTypeOK ==
  /\ TypeOK
  /\ part = "stream" => StreamTypeOK
  /\ PipeTypeOK
  /\ part = "outcomes" => OutcomeTypeOK
  /\ part = "subtransaction" => SubTypeOK
  /\ part = "blob" => BlobTypeOK
  /\ part = "focus" => FocusTypeOK
  /\ part = "session" => SessionTypeOK

(* The properties are those of the components: they hold where one is idle, too. *)
=============================================================================
