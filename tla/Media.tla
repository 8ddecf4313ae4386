------------------------------- MODULE Media --------------------------------
(* Mediator and MediaPipeline side by side: the goroutines, and what becomes *)
(* of one medium.  The variable part says which of them moves in a           *)
(* behaviour; the others stay in their initial state.                        *)
EXTENDS Mediator

CONSTANTS
  Again,     \* the medium a chat asks for that keeps duplicates
  Sizes, MinSize, MaxSize, RemoteMax, AttachMax, Converters  \* of MediaPipeline

VARIABLES part, at, source, dedup, content, ref, known, meta, next

Pipeline == INSTANCE MediaPipeline

ASSUME PipelineAssumption == Pipeline!SizeAssumption /\ Pipeline!ConverterAssumption

ASSUME AgainAssumption == Again \in Media

\* A chat that keeps duplicates.
Keeping == INSTANCE Mediator WITH Deduplicated <- {}
KeepingNext ==
  \/ Keeping!Tick \/ Keeping!CloseCancel \/ Keeping!Shutdown
  \/ Keeping!Mediate(Again) \/ Keeping!Step(Again) \/ Keeping!TaskStep(Again)

pipelineVars == <<at, source, dedup, content, ref, known, meta, next>>
mediatorVars == <<clock, job, began, file, seen, answer, post, work, state, ctx>>
mediaVars == <<part, mediatorVars, pipelineVars>>

OfMediator(Steps) == part = "mediator" /\ Steps /\ UNCHANGED <<part, pipelineVars>>
OfKeeping(Steps) == part = "keeping" /\ Steps /\ UNCHANGED <<part, pipelineVars>>

MediaInit == part \in {"mediator", "keeping", "pipeline"} /\ Init /\ Pipeline!Init

MediaNext ==
  \/ OfMediator(Next)
  \/ OfKeeping(KeepingNext)
  \/ part = "pipeline" /\ Pipeline!Next /\ UNCHANGED <<part, mediatorVars>>

MediaSpec ==
  /\ MediaInit /\ [][MediaNext]_mediaVars
  /\ WF_mediaVars(OfMediator(Shutdown)) /\ WF_mediaVars(OfKeeping(Keeping!Shutdown))
  /\ WF_mediaVars(OfKeeping(Keeping!Step(Again))) /\ WF_mediaVars(OfKeeping(Keeping!TaskStep(Again)))
  /\ \A m \in Media :
       WF_mediaVars(OfMediator(Step(m))) /\ WF_mediaVars(OfMediator(TaskStep(m)))

\* The type invariant of the pipeline, and that what is sent fits the way it is
\* sent, whatever its source declares (SentFits).
PipelineInvariant == Pipeline!TypeOK /\ Pipeline!SentFits
=============================================================================
