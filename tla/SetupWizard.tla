---------------------------- MODULE SetupWizard ----------------------------
(***************************************************************************)
(* `colin config` (bootstrap): the setup that writes WORKFLOW.md, as the   *)
(* wizard of an interactive terminal (tui.go) and as the line prompts of a *)
(* script (Run in bootstrap.go).                                           *)
(*                                                                         *)
(* The wizard's commands (listing Linear's projects, the preflight checks, *)
(* the save) run beside it, on a copy of the model taken when they start,  *)
(* and answer with a message whenever they end: in any order, and after    *)
(* whatever the operator did meanwhile.  External: the operator, Linear,   *)
(* and other programs that put a file at the workflow's path, or take it   *)
(* away.                                                                   *)
(***************************************************************************)
EXTENDS Naturals, Sequences, FiniteSets, FiniteSetsExt

CONSTANTS
  Typed,        \* the text steps that the operator types into
  Projects,     \* slugs of the projects that Linear lists
  MaxChecks,    \* bound: preflight checks
  MaxFetches    \* bound: project listings

(* The steps in the order of their numbers.                                *)
WizardSteps == <<"Intro", "LinearAPIKey", "GitHubToken", "ProjectSlug", "RepoURL", "BaseRef",
           "WorkspaceRoot", "RepoCacheRoot", "CheckoutPath", "ServerPort", "Webhook",
           "WebhookPort", "Review", "Success">>
StepNames == {WizardSteps[i] : i \in DOMAIN WizardSteps}
Number(s) == CHOOSE i \in DOMAIN WizardSteps : WizardSteps[i] = s
Secrets == {"LinearAPIKey", "GitHubToken"}
TextSteps == StepNames \ {"Intro", "Webhook", "Review", "Success"}

ASSUME SetupAssumption ==
  /\ Typed \subseteq TextSteps
  /\ {MaxChecks, MaxFetches} \subseteq Nat
  /\ {"blank", "odd"} \cap Projects = {}

(* What a text holds: nothing, something of the wrong form, or a good      *)
(* value.  Only the secrets, the repository and the ports have a form.     *)
Texts == Projects \cup {"blank", "odd", "good"}
Valid(v) == v \notin {"blank", "odd"}
Accepted(s, v) ==
  CASE s \in Secrets -> v # "odd"
    [] s \in {"RepoURL", "ServerPort", "WebhookPort"} -> Valid(v)
    [] s = "CheckoutPath" -> TRUE
    [] OTHER -> v # "blank"
Default == [s \in TextSteps |->
              IF s \in Secrets \cup {"ProjectSlug", "CheckoutPath"} THEN "blank" ELSE "good"]

(* What is typed: of the texts that a step treats alike, one.              *)
Drafts(s) ==
  CASE s \in Secrets -> Texts
    [] s \in {"RepoURL", "ServerPort", "WebhookPort"} -> {"odd", "good"}
    [] OTHER -> {"blank", "good"}

VARIABLES
  flow,       \* "wizard" or "prompts"
  step,
  text,       \* text step -> what stands in it
  webhook,    \* wantsWebhook
  list,       \* the project step: manual, attempted, loading, options
  fetches,    \* project listings under way
  checks,     \* preflight checks under way
  review,     \* running, attempted, dirty, report; overwrite asked and confirmed;
              \*   history: the operator said so
  save,       \* the save under way
  workflow,   \* what stands at the workflow's path
  outcome,    \* "open", "done", "aborted"
  spent        \* bounds: checks and fetches so far

setupVars == <<flow, step, text, webhook, list, fetches, checks, review, save, workflow, outcome, spent>>

hasKey == Valid(text["LinearAPIKey"])
hasToken == Valid(text["GitHubToken"])

(* What is written, and what the checks are about.                         *)
Answers ==
  [s \in TextSteps \ Secrets |-> IF s = "WebhookPort" /\ ~webhook THEN "blank" ELSE text[s]]
About == [answers |-> Answers, key |-> text["LinearAPIKey"], token |-> text["GitHubToken"]]
Parses(answers) ==
  /\ Valid(answers["ServerPort"])
  /\ Valid(answers["WebhookPort"]) \/ answers["WebhookPort"] = "blank"

Verdicts == {"ready", "error"}
NoReport == [verdict |-> "none", about |-> [key |-> "none"]]
NoFile == [of |-> "nobody"]
Theirs == [of |-> "them"]
NoSave == [stage |-> "none"]
(* History, not state of the code: no file stood at the save's last look.  *)
Saves(overwrite, clear) ==
  [stage |-> "stat", answers |-> Answers, overwrite |-> overwrite, clear |-> clear]

SetupInit ==
  /\ flow \in {"wizard", "prompts"} /\ step = IF flow = "wizard" THEN "Intro" ELSE "ProjectSlug"
  /\ \E key, token \in {"blank", "odd", "good"} :
       text = [Default EXCEPT !["LinearAPIKey"] = key, !["GitHubToken"] = token]
  /\ webhook = FALSE
  /\ list = [manual |-> ~hasKey, attempted |-> FALSE, loading |-> FALSE, options |-> {}, of |-> "blank"]
  /\ fetches = {} /\ checks = {}
  /\ review = [running |-> FALSE, attempted |-> FALSE, dirty |-> TRUE, report |-> NoReport,
               overwrite |-> FALSE, confirmed |-> FALSE, said |-> FALSE]
  /\ save = NoSave /\ workflow \in {NoFile, Theirs} /\ outcome = "open"
  /\ spent = [checks |-> 0, fetches |-> 0]

Key(s) == flow = "wizard" /\ outcome = "open" /\ save = NoSave /\ step = s

-----------------------------------------------------------------------------
(* Mutant: the step of the API key can be visited again.                   *)
HidesNoSecret(s) == s = "WebhookPort" /\ ~webhook
(* A secret that is already valid has no step.                             *)
Hides(s) ==
  \/ s = "LinearAPIKey" /\ hasKey
  \/ s = "GitHubToken" /\ hasToken
  \/ s = "WebhookPort" /\ ~webhook
Visible == {i \in DOMAIN WizardSteps : WizardSteps[i] # "Success" /\ ~Hides(WizardSteps[i])}
NextVisible(s) == WizardSteps[Min({i \in Visible : i > Number(s)})]
PreviousVisible(s) == WizardSteps[Max({i \in Visible : i < Number(s)})]

Fetch == [nr |-> spent.fetches + 1, key |-> text["LinearAPIKey"]]
StartFetch ==
  /\ spent.fetches < MaxFetches
  /\ fetches' = fetches \cup {Fetch}
  /\ spent' = [spent EXCEPT !.fetches = @ + 1]
StartCheck ==
  /\ spent.checks < MaxChecks
  /\ checks' = checks \cup {[nr |-> spent.checks + 1, about |-> About]}
  /\ spent' = [spent EXCEPT !.checks = @ + 1]

(* The projects are listed once, and again after another API key.          *)
Arrive(opened) ==
  IF hasKey /\ ~opened.manual /\ ~opened.loading /\ opened.options = {} /\ ~opened.attempted
  THEN StartFetch /\ list' = [opened EXCEPT !.loading = TRUE]
  ELSE list' = opened /\ UNCHANGED <<fetches, spent>>

(* The review asks whether to overwrite, and checks what has changed.  When *)
(* the look for a file fails, it shows what it knew from an earlier visit. *)
EnterReview(dirty) ==
  LET asks == [review EXCEPT !.overwrite = workflow # NoFile, !.confirmed = workflow = NoFile,
                             !.said = FALSE, !.dirty = dirty]
  IN \/ IF hasKey /\ dirty
        THEN /\ StartCheck
             /\ review' = [asks EXCEPT !.dirty = FALSE, !.running = TRUE, !.report = NoReport]
        ELSE review' = asks /\ UNCHANGED <<checks, spent>>
     \/ review' = [review EXCEPT !.dirty = dirty] /\ UNCHANGED <<checks, spent>>

(* advanceStep: to the next step, which may start a command.               *)
AdvanceStep(opened, dirty) ==
  /\ step' = NextVisible(step)
  /\ CASE step' = "ProjectSlug" ->
            Arrive(opened) /\ review' = [review EXCEPT !.dirty = dirty] /\ UNCHANGED checks
       [] step' = "Review" ->
            EnterReview(dirty) /\ list' = opened /\ UNCHANGED fetches
       [] OTHER -> /\ list' = opened /\ review' = [review EXCEPT !.dirty = dirty]
                   /\ UNCHANGED <<fetches, checks, spent>>
  /\ UNCHANGED <<flow, save, workflow, outcome>>

Start == Key("Intro") /\ AdvanceStep(list, review.dirty) /\ UNCHANGED <<text, webhook>>

(* Another API key forgets the projects.                                   *)
Forgotten == [manual |-> ~hasKey, attempted |-> FALSE, loading |-> list.loading,
              options |-> {}, of |-> "blank"]
(* Mutant: tab leaves a step without looking at what stands in it.         *)
Advances(s) == Key(s) /\ Accepted(s, text[s])
Advance(s) ==
  /\ Advances(s) /\ (s = "ProjectSlug" => list.manual)
  /\ IF s = "LinearAPIKey" THEN AdvanceStep(Forgotten, TRUE) ELSE AdvanceStep(list, review.dirty)
  /\ UNCHANGED <<text, webhook>>

Back ==
  /\ \E s \in StepNames \ {"Intro", "Success"} : Key(s)
  /\ step' = PreviousVisible(step)
  /\ UNCHANGED <<flow, text, webhook, list, fetches, checks, review, save, workflow, outcome, spent>>

(* Typing and pasting.  Neither secret asks for new checks when it is      *)
(* typed, and the API key none when it is pasted; it does when it is left  *)
(* with Enter.                                                             *)
Type(s, v) ==
  /\ Key(s) /\ s \in Typed /\ (s = "ProjectSlug" => list.manual) /\ v # text[s]
  /\ text' = [text EXCEPT ![s] = v]
  /\ \E pasted \in BOOLEAN :
       review' = [review EXCEPT !.dirty = @ \/ s \notin Secrets \/ (pasted /\ s # "LinearAPIKey")]
  /\ UNCHANGED <<flow, step, webhook, list, fetches, checks, save, workflow, outcome, spent>>

Listed == Key("ProjectSlug") /\ ~list.manual /\ ~list.loading
Select(p) ==
  /\ Listed /\ p \in list.options
  /\ text' = [text EXCEPT !["ProjectSlug"] = p]
  /\ AdvanceStep(list, TRUE) /\ UNCHANGED webhook

Project(change) ==
  list' = change /\ UNCHANGED <<flow, step, text, webhook, checks, review, save, workflow, outcome>>
TypeManually ==
  /\ Key("ProjectSlug") /\ ~list.manual
  /\ Project([list EXCEPT !.manual = TRUE]) /\ UNCHANGED <<fetches, spent>>
SelectAgain ==
  /\ Key("ProjectSlug") /\ list.manual /\ list.options # {}
  /\ Project([list EXCEPT !.manual = FALSE]) /\ UNCHANGED <<fetches, spent>>
FetchAgain ==
  /\ Key("ProjectSlug") /\ hasKey /\ StartFetch
  /\ Project([list EXCEPT !.manual = FALSE, !.loading = TRUE])

Toggle(wants) ==
  /\ Key("Webhook") /\ webhook' = wants
  /\ review' = [review EXCEPT !.dirty = TRUE]
  /\ UNCHANGED <<flow, step, text, list, fetches, checks, save, workflow, outcome, spent>>
LeaveWebhook == Key("Webhook") /\ AdvanceStep(list, review.dirty) /\ UNCHANGED <<text, webhook>>

-----------------------------------------------------------------------------
(* The review.                                                             *)
ConfirmOverwrite ==
  /\ Key("Review") /\ review.overwrite
  /\ review' = [review EXCEPT !.confirmed = ~@, !.said = ~review.confirmed]
  /\ UNCHANGED <<flow, step, text, webhook, list, fetches, checks, save, workflow, outcome, spent>>

CheckAgain ==
  /\ Key("Review") /\ hasKey /\ StartCheck
  /\ review' = [review EXCEPT !.running = TRUE]
  /\ UNCHANGED <<flow, step, text, webhook, list, fetches, save, workflow, outcome>>

Ready == hasKey => review.attempted /\ review.report.verdict = "ready"
Confirms == review.overwrite => review.confirmed
(* Mutant: the save may overwrite whenever nothing is left to confirm.     *)
WritesConfirmed ==
  /\ Key("Review") /\ ~review.running /\ Ready /\ Confirms
  /\ save' = Saves(review.confirmed, FALSE)
  /\ UNCHANGED <<flow, step, text, webhook, list, fetches, checks, review, workflow, outcome, spent>>
Write ==
  /\ Key("Review") /\ ~review.running /\ Ready /\ Confirms
  /\ save' = Saves(review.overwrite, FALSE)
  /\ UNCHANGED <<flow, step, text, webhook, list, fetches, checks, review, workflow, outcome, spent>>

Abort ==
  /\ flow = "wizard" /\ outcome = "open"
  /\ outcome' = IF step = "Success" THEN "done" ELSE "aborted"
  /\ UNCHANGED <<flow, step, text, webhook, list, fetches, checks, review, save, workflow, spent>>

-----------------------------------------------------------------------------
(* The commands' answers.  Both requests to Linear end within 20 seconds.  *)
Listing(f, found) ==
  /\ outcome = "open" /\ fetches' = fetches \ {f}
  /\ list' = IF found = {}
             THEN [list EXCEPT !.loading = FALSE, !.attempted = TRUE, !.manual = TRUE]
             ELSE [manual |-> FALSE, attempted |-> TRUE, loading |-> FALSE, options |-> found,
                   of |-> f.key]
  /\ UNCHANGED <<flow, step, text, webhook, checks, review, save, workflow, outcome, spent>>

Report(verdict, c) ==
  [review EXCEPT !.running = FALSE, !.attempted = TRUE,
                 !.report = [verdict |-> verdict, about |-> c.about]]
Checked(c, verdict) ==
  /\ outcome = "open" /\ (Parses(c.about.answers) \/ verdict = "error")
  /\ checks' = checks \ {c}
  /\ review' = Report(verdict, c)
  /\ UNCHANGED <<flow, step, text, webhook, list, fetches, save, workflow, outcome, spent>>
(* WriteWorkflow: without leave to overwrite it looks for a file first.    *)
(* The wizard shows a failed save and stays; the prompts end.  The command *)
(* goes on for a moment when the operator has quit.  A save fails when the  *)
(* path cannot be looked at, or the directory or the file not be opened.   *)
Refuses == ~save.overwrite /\ workflow # NoFile
SaveLooks ==
  /\ save.stage = "stat"
  /\ save' = [save EXCEPT !.stage = IF Refuses THEN "failed" ELSE "write",
                          !.clear = IF save.overwrite THEN @ ELSE workflow = NoFile]
  /\ UNCHANGED <<flow, step, text, webhook, list, fetches, checks, review, workflow, outcome, spent>>
SaveWrites ==
  /\ save.stage = "write" /\ workflow' = save.answers /\ save' = [save EXCEPT !.stage = "written"]
  /\ UNCHANGED <<flow, step, text, webhook, list, fetches, checks, review, outcome, spent>>
SaveFails ==
  /\ save.stage \in {"stat", "write"} /\ save' = [save EXCEPT !.stage = "failed"]
  /\ UNCHANGED <<flow, step, text, webhook, list, fetches, checks, review, workflow, outcome, spent>>
Ends == save.stage \in {"written", "failed"}
Wrote == save.stage = "written"
Saved ==
  /\ Ends /\ outcome = "open" /\ save' = NoSave
  /\ step' = IF Wrote THEN "Success" ELSE step
  /\ outcome' = CASE flow = "wizard" -> "open"
                  [] Wrote -> "done"
                  [] OTHER -> "aborted"
  /\ UNCHANGED <<flow, text, webhook, list, fetches, checks, review, workflow, spent>>

-----------------------------------------------------------------------------
(* The prompts of a script, one line each: a blank line takes the default, *)
(* a wrong one is asked again, and the last question is asked only when    *)
(* the file exists: without one the save may overwrite, and looks no more. *)
(* A failing look ends the setup, like a no.                               *)
AsksFor(s) == flow = "prompts" /\ outcome = "open" /\ step = s
Line(s, v) == IF v = "blank" THEN Default[s] ELSE v
TakesLine(s, v) == IF s = "RepoURL" THEN v # "blank" ELSE Accepted(s, v)
Prompt(s, v) ==
  /\ AsksFor(s) /\ (s \in Typed \/ v = Default[s])
  /\ text' = [text EXCEPT ![s] = Line(s, v)]
  /\ TakesLine(s, text'[s])
  /\ step' = NextVisible(s)
  /\ UNCHANGED <<flow, webhook, list, fetches, checks, review, save, workflow, outcome, spent>>
PromptWebhook(wants) ==
  /\ AsksFor("Webhook") /\ webhook' = wants
  /\ step' = IF wants THEN "WebhookPort" ELSE "Review"
  /\ UNCHANGED <<flow, text, list, fetches, checks, review, save, workflow, outcome, spent>>
PromptWrite(yes, overwrite) ==
  /\ AsksFor("Review") /\ save = NoSave
  /\ IF yes
     THEN save' = Saves(workflow = NoFile \/ overwrite, workflow = NoFile) /\ UNCHANGED outcome
     ELSE outcome' = "aborted" /\ UNCHANGED save
  /\ review' = [review EXCEPT !.said = overwrite /\ workflow # NoFile]
  /\ UNCHANGED <<flow, step, text, webhook, list, fetches, checks, workflow, spent>>

FileAppears ==
  /\ workflow = NoFile /\ workflow' = Theirs
  /\ UNCHANGED <<flow, step, text, webhook, list, fetches, checks, review, save, outcome, spent>>
FileGoes ==
  /\ workflow = Theirs /\ workflow' = NoFile
  /\ UNCHANGED <<flow, step, text, webhook, list, fetches, checks, review, save, outcome, spent>>

-----------------------------------------------------------------------------
Wizard ==
  \/ Start \/ Back \/ TypeManually \/ SelectAgain \/ FetchAgain
  \/ \E s \in TextSteps : Advance(s) \/ \E v \in Drafts(s) : Type(s, v)
  \/ \E p \in Projects : Select(p)
  \/ LeaveWebhook \/ \E wants \in BOOLEAN : Toggle(wants)
  \/ ConfirmOverwrite \/ CheckAgain \/ Write \/ Abort
Commands ==
  \/ \E f \in fetches, found \in {{}, Projects} : Listing(f, found)
  \/ \E c \in checks, verdict \in Verdicts : Checked(c, verdict)
  \/ SaveLooks \/ SaveWrites \/ SaveFails \/ Saved
Prompts ==
  \/ \E s \in TextSteps \ Secrets : \E v \in Drafts(s) \cup {"blank"} : Prompt(s, v)
  \/ \E wants \in BOOLEAN : PromptWebhook(wants)
  \/ \E yes, overwrite \in BOOLEAN : PromptWrite(yes, overwrite)

SetupNext == Wizard \/ Commands \/ Prompts \/ FileAppears \/ FileGoes

(* A command ends while the wizard runs; the operator need not do a thing. *)
Fairness ==
  /\ WF_setupVars(\E f \in fetches, found \in {{}, Projects} : Listing(f, found))
  /\ WF_setupVars(\E c \in checks, verdict \in Verdicts : Checked(c, verdict))
  /\ WF_setupVars(outcome = "open" /\ (SaveLooks \/ SaveWrites \/ SaveFails \/ Saved))

SetupSpec == SetupInit /\ [][SetupNext]_setupVars /\ Fairness

-----------------------------------------------------------------------------
SetupTypeOK ==
  /\ flow \in {"wizard", "prompts"} /\ step \in StepNames /\ outcome \in {"open", "done", "aborted"}
  /\ text \in [TextSteps -> Texts] /\ webhook \in BOOLEAN
  /\ list.manual \in BOOLEAN /\ list.loading \in BOOLEAN /\ list.options \in {{}, Projects}
  /\ Cardinality(fetches) <= MaxFetches /\ Cardinality(checks) <= MaxChecks
  /\ save.stage \in {"none", "stat", "write", "written", "failed"}
  /\ workflow \in {NoFile, Theirs} \/ Parses(workflow)

(* On the review every answer that will be written has been accepted by    *)
(* its step, whatever was typed, left with shift+tab, hidden again or      *)
(* replaced by a list that arrived late.                                   *)
ReviewIsValid ==
  step = "Review" => \A s \in DOMAIN Answers : (s = "WebhookPort" => webhook) =>
                       IF flow = "wizard" THEN Accepted(s, text[s]) ELSE TakesLine(s, text[s])

(* The projects offered are those of the API key that the session uses: a  *)
(* listing asked for with another key never fills the selector.            *)
OptionsOfThisKey ==
  flow = "wizard" /\ step = "ProjectSlug" /\ ~list.manual /\ ~list.loading =>
    list.of = text["LinearAPIKey"]

(* A save replaces a file of theirs only if the operator said so, toggling *)
(* the review's confirmation or answering the question, or if none stood   *)
(* at the last look before the write: however often the review is entered, *)
(* whatever looks fail, and whenever files come and go.                    *)
NeverClobbers ==
  [][workflow = Theirs /\ workflow' \notin {NoFile, Theirs} => review.said \/ save.clear]_setupVars

(* Listings, checks and saves end: no step waits forever.                  *)
WaitsEnd ==
  /\ []<>(outcome = "open" => ~list.loading) /\ []<>(outcome = "open" => ~review.running)
  /\ []<>(outcome = "open" => save = NoSave)

(* README: the live checks run before WORKFLOW.md is written; once the     *)
(* review passes, the wizard writes it.  So with an API key the answers of *)
(* a save are the ones that a check has found ready.                       *)
WrittenWasChecked ==
  [][flow = "wizard" /\ save = NoSave /\ save' # NoSave /\ hasKey => review.report.about = About]_setupVars

(* cmd/config.go, after ErrAborted: "Setup canceled. No workflow file was  *)
(* written."                                                               *)
CanceledUnwritten == outcome = "aborted" => workflow \in {NoFile, Theirs}
=============================================================================
