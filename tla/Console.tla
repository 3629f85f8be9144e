------------------------------- MODULE Console -------------------------------
(***************************************************************************)
(* Questions to the user, cancellation and the end of the process          *)
(* (lifecycleMgr and the commands' Cancel and ReportProgressOrExit).       *)
(*                                                                         *)
(*   printer    processOutputMessage: the only goroutine that prints; it   *)
(*              waits for the answer to a question, and ends the process   *)
(*   watcher    watchInputs: reads lines; a line is an answer when some    *)
(*              Prompt is waiting on waitForUserResponse                   *)
(*   reporter   InitiateProgressReporting: reports, cancels, and asks      *)
(*              before it does when the source is still being listed       *)
(*   transfers  ask whether to overwrite, one at a time (overwritePrompter)*)
(*                                                                         *)
(* Instead of the times of questions and lines, a line bears the number of *)
(* questions that had been printed when it was read.  The job is abstract: *)
(* it ends when every transfer has.  Progress messages are left out, and   *)
(* so are the messages of the watcher to the engine.                       *)
(***************************************************************************)
EXTENDS Integers, Sequences, FiniteSets

CONSTANTS Askers,         \* transfers that find their destination there
          Reporter,       \* the name of the reporter
          MsgRoom,        \* the capacity of msgQueue
          UserIsThere,    \* FALSE: nothing comes from stdin
          QuietOptions,   \* whether prompts are suppressed (OutputVerbosityType)
          CommandKinds,   \* a subset of {"copy", "resume"}
          MaxLines,       \* lines that nobody asked for
          MaxSignals      \* interrupts

ASSUME ConsoleAssumption ==
    /\ Reporter \notin Askers /\ MsgRoom \in Nat \ {0}
    /\ "free" \notin Askers /\ "none" \notin Askers \cup {Reporter}
    /\ UserIsThere \in BOOLEAN /\ QuietOptions \subseteq BOOLEAN
    /\ CommandKinds \subseteq {"copy", "resume"}
    /\ MaxLines \in Nat /\ MaxSignals \in Nat

Speakers == Askers \cup {Reporter}
AnswersToOverwrite == {"Yes", "No", "YesForAll", "NoForAll", "Default"}

VARIABLES
    quiet, kind,            \* of the command
    isEnumerationComplete,
    job,                    \* "running", "cancelling", "completed" or "cancelled"
    settled,                \* of each transfer: "no", "overwrite", "skip" or "cancelled"
    lock,                   \* who holds the overwritePrompter, or "free"
    shouldPromptUser, savedResponse,
    prompt,                 \* of each speaker, where its Prompt is, and the question's number
    reporterAt,
    msgQueue,
    asking,                 \* whose question the printer waits on, or "none"
    printed,                \* questions printed
    stdin, watcherAt, inputQueue, cancelChannel,
    exit,                   \* "none", or with what the process has ended
    lines, signals          \* unasked lines and interrupts so far

jobVars == <<isEnumerationComplete, job, settled>>
prompterVars == <<lock, shouldPromptUser, savedResponse>>
outVars == <<msgQueue, asking, printed, exit>>
inVars == <<stdin, watcherAt, inputQueue, cancelChannel, lines, signals>>
cnVars == <<quiet, kind, jobVars, prompterVars, prompt, reporterAt, outVars, inVars>>

NoPrompt == [at |-> "none", question |-> 0, answered |-> 0]

CNInit ==
    /\ quiet \in QuietOptions /\ kind \in CommandKinds
    /\ isEnumerationComplete \in IF kind = "copy" THEN BOOLEAN ELSE {TRUE}
    /\ job = "running" /\ settled = [t \in Askers |-> "no"]
    /\ lock = "free" /\ shouldPromptUser = TRUE /\ savedResponse = FALSE
    /\ prompt = [s \in Speakers |-> NoPrompt]
    /\ reporterAt = "watching"
    /\ msgQueue = <<>> /\ asking = "none" /\ printed = 0 /\ exit = "none"
    /\ stdin = <<>> /\ watcherAt = "reading" /\ inputQueue = <<>> /\ cancelChannel = 0
    /\ lines = 0 /\ signals = 0

JobIsDone == job \in {"completed", "cancelled"}
HasRoom == Len(msgQueue) < MsgRoom
Say(type, whom) == msgQueue' = Append(msgQueue, [type |-> type, whom |-> whom])

-----------------------------------------------------------------------------
(* Prompt: the question is put in the queue, the watcher is told that the  *)
(* next line is an answer, and the answer is awaited.                      *)
Ask(s) ==
    /\ prompt[s].at = "asked" /\ HasRoom
    /\ Say("prompt", s)
    /\ prompt' = [prompt EXCEPT ![s].at = "signalling"]
    /\ UNCHANGED <<quiet, kind, jobVars, prompterVars, reporterAt, asking, printed, exit,
                   inVars>>

IsAnswered(s) == prompt[s].at = "awaiting" /\ prompt[s].answered > 0

-----------------------------------------------------------------------------
(* processOutputMessage. *)
PrintMessage ==
    /\ asking = "none" /\ msgQueue # <<>>
    /\ msgQueue' = Tail(msgQueue)
    /\ LET m == Head(msgQueue)
       IN IF m.type = "prompt" /\ ~quiet
          THEN /\ asking' = m.whom /\ printed' = printed + 1
               /\ prompt' = [prompt EXCEPT ![m.whom].question = printed + 1]
               /\ UNCHANGED exit
          ELSE /\ exit' = IF m.type = "exit" THEN m.whom ELSE exit
               /\ UNCHANGED <<asking, printed, prompt>>
    /\ UNCHANGED <<quiet, kind, jobVars, prompterVars, reporterAt, inVars>>

MutGetInputAfterTime ==  \* any input will do
    /\ asking # "none" /\ inputQueue # <<>>
    /\ inputQueue' = Tail(inputQueue)
    /\ prompt' = [prompt EXCEPT ![asking].answered = Head(inputQueue) + 1]
    /\ asking' = "none"
    /\ UNCHANGED <<quiet, kind, jobVars, prompterVars, reporterAt, msgQueue, printed, exit>>
    /\ UNCHANGED <<stdin, watcherAt, cancelChannel, lines, signals>>

(* Input from before the question is dropped. *)
GetInputAfterTime ==
    /\ asking # "none" /\ inputQueue # <<>>
    /\ inputQueue' = Tail(inputQueue)
    /\ IF Head(inputQueue) >= prompt[asking].question
       THEN /\ prompt' = [prompt EXCEPT ![asking].answered = Head(inputQueue) + 1]
            /\ asking' = "none"
       ELSE UNCHANGED <<prompt, asking>>
    /\ UNCHANGED <<quiet, kind, jobVars, prompterVars, reporterAt, msgQueue, printed, exit>>
    /\ UNCHANGED <<stdin, watcherAt, cancelChannel, lines, signals>>

-----------------------------------------------------------------------------
(* The user: answers what is asked, now and then types something else, and *)
(* interrupts (signal.Notify drops what does not fit the channel).         *)
UserAnswers ==
    /\ UserIsThere /\ asking # "none" /\ stdin = <<>> /\ inputQueue = <<>>
    /\ stdin' = <<"answer">>
    /\ UNCHANGED <<quiet, kind, jobVars, prompterVars, prompt, reporterAt, outVars, watcherAt>>
    /\ UNCHANGED <<inputQueue, cancelChannel, lines, signals>>

UserTypes(line) ==
    /\ UserIsThere /\ lines < MaxLines /\ lines' = lines + 1
    /\ stdin' = Append(stdin, line)
    /\ UNCHANGED <<quiet, kind, jobVars, prompterVars, prompt, reporterAt, outVars, watcherAt>>
    /\ UNCHANGED <<inputQueue, cancelChannel, signals>>

Interrupt ==
    /\ signals < MaxSignals /\ signals' = signals + 1
    /\ cancelChannel' = 1
    /\ UNCHANGED <<quiet, kind, jobVars, prompterVars, prompt, reporterAt, outVars>>
    /\ UNCHANGED <<stdin, watcherAt, inputQueue, lines>>

(* watchInputs.  The line goes to whoever of those waiting has waited      *)
(* longest; which of them does not matter to the printer.                  *)
ReadLine ==
    /\ watcherAt = "reading" /\ stdin # <<>>
    /\ stdin' = Tail(stdin)
    /\ \/ \E s \in Speakers :
            /\ prompt[s].at = "signalling"
            /\ prompt' = [prompt EXCEPT ![s].at = "awaiting"]
            /\ inputQueue' = Append(inputQueue, printed)
            /\ UNCHANGED watcherAt
       \/ /\ \A s \in Speakers : prompt[s].at # "signalling"
          /\ watcherAt' = IF Head(stdin) = "cancel" THEN "cancelling" ELSE "reading"
          /\ UNCHANGED <<prompt, inputQueue>>
    /\ UNCHANGED <<quiet, kind, jobVars, prompterVars, reporterAt, outVars>>
    /\ UNCHANGED <<cancelChannel, lines, signals>>

PassOnCancel ==
    /\ watcherAt = "cancelling" /\ cancelChannel = 0
    /\ cancelChannel' = 1 /\ watcherAt' = "reading"
    /\ UNCHANGED <<quiet, kind, jobVars, prompterVars, prompt, reporterAt, outVars>>
    /\ UNCHANGED <<stdin, inputQueue, lines, signals>>

-----------------------------------------------------------------------------
(* The goroutine of InitiateProgressReporting. *)
TakeCancel ==
    /\ reporterAt = "watching" /\ cancelChannel = 1
    /\ cancelChannel' = 0
    /\ IF isEnumerationComplete
       THEN reporterAt' = "cancelling" /\ UNCHANGED prompt
       ELSE reporterAt' = "asking" /\ prompt' = [prompt EXCEPT ![Reporter].at = "asked"]
    /\ UNCHANGED <<quiet, kind, jobVars, prompterVars, outVars>>
    /\ UNCHANGED <<stdin, watcherAt, inputQueue, lines, signals>>

(* Cancel: only "Yes" goes on. *)
CancelAnswered ==
    /\ reporterAt = "asking" /\ IsAnswered(Reporter)
    /\ reporterAt' \in {"cancelling", "watching"}
    /\ prompt' = [prompt EXCEPT ![Reporter] = NoPrompt]
    /\ UNCHANGED <<quiet, kind, jobVars, prompterVars, outVars, inVars>>

(* CancelPauseJobOrder refuses when the job has ended; Error ends the      *)
(* process then.                                                           *)
CancelJob ==
    /\ reporterAt = "cancelling" /\ HasRoom
    /\ IF JobIsDone
       THEN Say("exit", "error") /\ reporterAt' = "gone" /\ UNCHANGED job
       ELSE job' = "cancelling" /\ reporterAt' = "watching" /\ UNCHANGED msgQueue
    /\ UNCHANGED <<quiet, kind, isEnumerationComplete, settled, prompterVars, prompt>>
    /\ UNCHANGED <<asking, printed, exit, inVars>>

(* No transfer fails here; resumeJobController looks at nothing else.      *)
ExitCode == IF job = "cancelled" /\ kind = "copy" THEN "error" ELSE "success"

ReportProgressOrExit ==
    /\ reporterAt = "watching" /\ JobIsDone /\ HasRoom
    /\ Say("exit", ExitCode) /\ reporterAt' = "gone"
    /\ UNCHANGED <<quiet, kind, jobVars, prompterVars, prompt, asking, printed, exit, inVars>>

-----------------------------------------------------------------------------
(* ShouldOverwrite, up to the question. *)
ShouldOverwrite(t) ==
    /\ job = "running" /\ settled[t] = "no" /\ prompt[t].at = "none" /\ lock = "free"
    /\ IF shouldPromptUser
       THEN /\ lock' = t /\ prompt' = [prompt EXCEPT ![t].at = "asked"]
            /\ UNCHANGED settled
       ELSE /\ settled' = [settled EXCEPT ![t] = IF savedResponse THEN "overwrite" ELSE "skip"]
            /\ UNCHANGED <<lock, prompt>>
    /\ UNCHANGED <<quiet, kind, isEnumerationComplete, job, shouldPromptUser, savedResponse>>
    /\ UNCHANGED <<reporterAt, outVars, inVars>>

(* ... and with the answer (promptForConfirmation). *)
OverwriteAnswered(t) ==
    /\ IsAnswered(t)
    /\ \E answer \in AnswersToOverwrite :
         /\ settled' = [settled EXCEPT ![t] =
               IF answer \in {"Yes", "YesForAll"} THEN "overwrite" ELSE "skip"]
         /\ shouldPromptUser' = (shouldPromptUser /\ answer \notin {"YesForAll", "NoForAll"})
         /\ savedResponse' = IF answer = "YesForAll" THEN TRUE ELSE savedResponse
    /\ lock' = "free" /\ prompt' = [prompt EXCEPT ![t] = NoPrompt]
    /\ UNCHANGED <<quiet, kind, isEnumerationComplete, job, reporterAt, outVars, inVars>>

(* The job, as the engine settles it. *)
EnumerationCompletes ==
    /\ ~isEnumerationComplete /\ isEnumerationComplete' = TRUE
    /\ UNCHANGED <<quiet, kind, job, settled, prompterVars, prompt, reporterAt, outVars,
                   inVars>>

TransferIsCancelled(t) ==
    /\ job = "cancelling" /\ settled[t] = "no" /\ prompt[t].at = "none"
    /\ settled' = [settled EXCEPT ![t] = "cancelled"]
    /\ UNCHANGED <<quiet, kind, isEnumerationComplete, job, prompterVars, prompt, reporterAt>>
    /\ UNCHANGED <<outVars, inVars>>

JobEnds ==
    /\ ~JobIsDone /\ \A t \in Askers : settled[t] # "no"
    /\ \/ job = "running" /\ isEnumerationComplete /\ job' = "completed"
       \/ job = "cancelling" /\ job' = "cancelled"
    /\ UNCHANGED <<quiet, kind, isEnumerationComplete, settled, prompterVars, prompt>>
    /\ UNCHANGED <<reporterAt, outVars, inVars>>

ReporterStep == TakeCancel \/ CancelAnswered \/ CancelJob \/ ReportProgressOrExit
PrinterStep == PrintMessage \/ GetInputAfterTime
WatcherStep == ReadLine \/ PassOnCancel
TransferStep(t) == ShouldOverwrite(t) \/ OverwriteAnswered(t) \/ TransferIsCancelled(t)
UserStep == UserAnswers \/ Interrupt \/ UserTypes("cancel") \/ UserTypes("noise")

CNNext ==
    /\ exit = "none"
    /\ \/ ReporterStep \/ PrinterStep \/ WatcherStep \/ UserStep
       \/ EnumerationCompletes \/ JobEnds
       \/ \E t \in Askers : TransferStep(t)
       \/ \E s \in Speakers : Ask(s)

(* Every goroutine is scheduled, the reporter looks at both of its         *)
(* channels, and a user who is there answers what stands on the screen.    *)
CNFairness ==
    LET Fair(A) == exit = "none" /\ A
    IN /\ WF_cnVars(Fair(PrinterStep)) /\ WF_cnVars(Fair(WatcherStep))
       /\ WF_cnVars(Fair(TakeCancel \/ CancelAnswered \/ CancelJob))
       /\ WF_cnVars(Fair(ReportProgressOrExit))
       /\ WF_cnVars(Fair(UserAnswers))
       /\ \A s \in Speakers : WF_cnVars(Fair(Ask(s)))
       /\ \A t \in Askers : WF_cnVars(Fair(TransferStep(t)))

CNSpec == CNInit /\ [][CNNext]_cnVars /\ CNFairness

-----------------------------------------------------------------------------
CNTypeOK ==
    /\ job \in {"running", "cancelling", "completed", "cancelled"}
    /\ settled \in [Askers -> {"no", "overwrite", "skip", "cancelled"}]
    /\ lock \in Askers \cup {"free"} /\ asking \in Speakers \cup {"none"}
    /\ Len(msgQueue) <= MsgRoom /\ cancelChannel \in 0 .. 1
    /\ Cardinality({t \in Askers : prompt[t].at # "none"}) <= 1
    /\ exit \in {"none", "success", "error"}

(* "only user input after the specified time is returned to make sure that *)
(* we are getting the right answer to our question" (getInputAfterTime):   *)
(* whatever was typed, and whosever turn on waitForUserResponse it used.   *)
AnswersComeAfterTheirQuestion ==
    \A s \in Speakers : prompt[s].answered > 0 => prompt[s].answered > prompt[s].question

(* After an answer for all, nobody is asked again (overwritePrompter's     *)
(* lock, taken around the look at shouldPromptUser and the question).      *)
NoQuestionAfterAnswerForAll ==
    \A t \in Askers : prompt[t].at # "none" => shouldPromptUser

(* A copy that says it succeeded was not cancelled (ReportProgressOrExit). *)
SuccessIsNotCancelled == exit = "success" /\ kind = "copy" => job = "completed"

(* "it will terminate the whole process eventually when the work is        *)
(* complete" (InitiateProgressReporting): at least when nobody types what  *)
(* was not asked for, and questions can be answered.                       *)
FinishedProcessEnds ==
    []<>(JobIsDone /\ UserIsThere /\ ~quiet => exit # "none" \/ lines > 0)

(* ... and without those conditions.                                       *)
EveryFinishedProcessEnds == []<>(JobIsDone => exit # "none")

(* Answers go to the question they were given to, nobody is asked in vain, *)
(* and the exit code tells the outcome.                                    *)
ConsoleInv ==
    /\ CNTypeOK
    /\ AnswersComeAfterTheirQuestion
    /\ NoQuestionAfterAnswerForAll
    /\ SuccessIsNotCancelled
=============================================================================
