---------------------------- MODULE UnlockPrompt ----------------------------
(***************************************************************************)
(* A wallet page and a signer that locks behind its back                   *)
(* (src/src/popup/app.ts, unlockingWallet, promptUnlock, checkSigner).     *)
(*                                                                         *)
(* Requests that need keys are messages to the signer, which handles them  *)
(* one by one and answers; an answer may be lost with the signer's worker. *)
(* One that is answered "Locked" waits for the password prompt and is sent *)
(* again.  Between two messages the page's code runs undisturbed: when a   *)
(* prompt ends, all that waited for it go on in the same step.             *)
(***************************************************************************)
EXTENDS Naturals

CONSTANTS
    Messages,     \* requests that need keys
    Adds,         \* those of them that are addAccount
    Submissions,  \* passwords on their way to the signer
    Prompts,      \* overlays; bound: as many as can be shown or submitted at once
    None

UnlockPromptAssumption ==
    /\ Adds \subseteq Messages
    /\ None \notin Prompts

VARIABLES
    open,       \* the signer has a session
    believed,   \* the page's st: not locked
    visible,    \* document.visibilityState
    request,    \* per request: where it is, its answer, the prompt it waits for
    effects,    \* how often the signer did what it asks
    refused,    \* the requests the signer found itself locked for
    asked,      \* the requests that waited for a prompt
    shown,      \* the overlays on the page
    unlocking,  \* the prompt that is shared
    submission, \* per submission: its overlay and the signer's answer
    notice,     \* the lock notice is shown
    check,      \* checkSigner's status read
    reload      \* refresh's status read

calls   == <<request, effects, refused, asked>>
prompts == <<shown, unlocking, submission>>
reads   == <<check, reload>>
page    == <<believed, visible, notice>>
vars    == <<open, believed, visible, request, effects, refused, asked, shown, unlocking,
             submission, notice, check, reload>>

Places  == {"idle", "sent", "answered", "waiting", "sentAgain", "answeredAgain", "done"}
Answers == {"none", "ok", "Locked", "LockedOrNoPhrase", "error", "lost", "lockedMessage"}

Unused == {prompt \in Prompts : prompt \notin shown /\ \A s \in Submissions : submission[s].prompt # prompt}

Idle == [at |-> "idle", answer |-> "none", prompt |-> None]
NoSubmission == [prompt |-> None, answer |-> "none"]

Init ==
    /\ open \in BOOLEAN /\ believed = TRUE /\ visible = TRUE
    /\ request = [r \in Messages |-> Idle]
    /\ effects = [r \in Messages |-> 0] /\ refused = {} /\ asked = {}
    /\ shown = {} /\ unlocking = None /\ submission = [s \in Submissions |-> NoSubmission]
    /\ notice = FALSE /\ check = "none" /\ reload = "none"

----------------------------------------------------------------------------
(* The signer                                                               *)

(* Its idle timer, the browser, or another page.                            *)
Lock   == open /\ open' = FALSE /\ UNCHANGED <<page, calls, prompts, reads>>
Unlock == ~open /\ open' = TRUE /\ UNCHANGED <<page, calls, prompts, reads>>

Refusal(r) == IF r \in Adds THEN "LockedOrNoPhrase" ELSE "Locked"

Replied(r, answer) ==
    [request EXCEPT ![r].at = IF @ = "sent" THEN "answered" ELSE "answeredAgain", ![r].answer = answer]

Handle(r) ==
    /\ request[r].at \in {"sent", "sentAgain"}
    /\ \/ /\ open /\ effects' = [effects EXCEPT ![r] = @ + 1]
          /\ request' = Replied(r, "ok") \/ request' = Replied(r, "lost")
          /\ refused' = refused
       \/ /\ open /\ request' = Replied(r, IF r \in Adds THEN "LockedOrNoPhrase" ELSE "error")
          /\ UNCHANGED <<effects, refused>>
       \/ /\ ~open /\ request' = Replied(r, Refusal(r)) /\ refused' = refused \cup {r}
          /\ effects' = effects
       \/ request' = Replied(r, "lost") /\ UNCHANGED <<effects, refused>>
    /\ UNCHANGED <<open, page, asked, prompts, reads>>

(* A password is right, wrong, or its answer lost.                          *)
HandleUnlock(s) ==
    /\ submission[s].prompt # None /\ submission[s].answer = "none"
    /\ \/ open' = TRUE /\ submission' = [submission EXCEPT ![s].answer = "ok"]
       \/ open' = open /\ submission' = [submission EXCEPT ![s].answer = "wrong"]
       \/ open' \in {open, TRUE} /\ submission' = [submission EXCEPT ![s] = NoSubmission]
    /\ UNCHANGED <<page, calls, shown, unlocking, reads>>

----------------------------------------------------------------------------
(* The wrapper                                                              *)

Send(r) ==
    /\ request[r].at = "idle"
    /\ request' = [request EXCEPT ![r].at = "sent"]
    /\ UNCHANGED <<open, page, effects, refused, asked, prompts, reads>>

(* The shared prompt, or a new one.                                         *)
Prompt(prompt) ==
    IF unlocking # None THEN prompt = unlocking /\ UNCHANGED <<shown, unlocking>>
    ELSE prompt \in Unused /\ shown' = shown \cup {prompt} /\ unlocking' = prompt

Receive(r) ==
    /\ request[r].at = "answered"
    /\ IF request[r].answer = "Locked"
       THEN \E prompt \in Prompts :
              /\ Prompt(prompt)
              /\ request' = [request EXCEPT ![r] = [at |-> "waiting", answer |-> "none", prompt |-> prompt]]
              /\ asked' = asked \cup {r}
       ELSE request' = [request EXCEPT ![r].at = "done"] /\ UNCHANGED <<asked, shown, unlocking>>
    /\ UNCHANGED <<open, page, effects, refused, submission, reads>>

ReceiveAgain(r) ==
    /\ request[r].at = "answeredAgain"
    /\ request' = [request EXCEPT ![r].at = "done"]
    /\ UNCHANGED <<open, page, effects, refused, asked, prompts, reads>>

----------------------------------------------------------------------------
(* The prompt                                                               *)

Waiters(prompt) == {r \in Messages : request[r].at = "waiting" /\ request[r].prompt = prompt}

(* Mutant: the shared prompt is not forgotten.                              *)
FinishAndKeep(prompt, unlocked) ==
    /\ shown' = shown \ {prompt} /\ unlocking' = unlocking
    /\ request' = [r \in Messages |->
         IF r \notin Waiters(prompt) THEN request[r]
         ELSE IF unlocked THEN [Idle EXCEPT !.at = "sentAgain"]
         ELSE [Idle EXCEPT !.at = "done", !.answer = "lockedMessage"]]

(* The shared prompt is forgotten even if it is another one by now.         *)
Finish(prompt, unlocked) ==
    /\ shown' = shown \ {prompt} /\ unlocking' = None
    /\ request' = [r \in Messages |->
         IF r \notin Waiters(prompt) THEN request[r]
         ELSE IF unlocked THEN [Idle EXCEPT !.at = "sentAgain"]
         ELSE [Idle EXCEPT !.at = "done", !.answer = "lockedMessage"]]

Submit(s, prompt) ==
    /\ prompt \in shown /\ submission[s] = NoSubmission
    /\ submission' = [submission EXCEPT ![s].prompt = prompt]
    /\ UNCHANGED <<open, page, calls, shown, unlocking, reads>>

(* An answer may come after the overlay was left.                           *)
Answered(s) ==
    /\ submission[s].answer # "none"
    /\ IF submission[s].answer = "ok"
       THEN believed' = TRUE /\ notice' = FALSE /\ Finish(submission[s].prompt, TRUE)
       ELSE UNCHANGED <<believed, notice, shown, unlocking, request>>
    /\ submission' = [submission EXCEPT ![s] = NoSubmission]
    /\ UNCHANGED <<open, visible, effects, refused, asked, reads>>

NotNow(prompt) ==
    /\ prompt \in shown /\ Finish(prompt, FALSE)
    /\ notice' = (notice \/ Waiters(prompt) # {})
    /\ UNCHANGED <<open, believed, visible, effects, refused, asked, submission, reads>>

(* The notice's own button.                                                 *)
ClickUnlock ==
    /\ notice /\ \E prompt \in Prompts : Prompt(prompt)
    /\ UNCHANGED <<open, page, calls, submission, reads>>

----------------------------------------------------------------------------
(* What the page knows of the signer                                        *)

Look == visible' = ~visible /\ UNCHANGED <<open, believed, notice, calls, prompts, reads>>

Check ==
    /\ check = "none" /\ believed /\ visible /\ check' = "sent"
    /\ UNCHANGED <<open, page, calls, prompts, reload>>

State == IF open THEN "open" ELSE "locked"

CheckAnswer == check = "sent" /\ check' = State /\ UNCHANGED <<open, page, calls, prompts, reload>>
CheckFails  == check = "sent" /\ check' = "none" /\ UNCHANGED <<open, page, calls, prompts, reload>>

(* Mutant: the check only hides the notice.                                 *)
CheckedOnlyHides ==
    /\ check \in {"open", "locked"} /\ check' = "none"
    /\ notice' = (notice /\ check = "locked")
    /\ UNCHANGED <<open, believed, visible, calls, prompts, reload>>

Checked ==
    /\ check \in {"open", "locked"} /\ check' = "none"
    /\ notice' = (check = "locked")
    /\ UNCHANGED <<open, believed, visible, calls, prompts, reload>>

(* refresh: many screens end with it.  A locked page shows the unlock screen.*)
Reload       == reload = "none" /\ reload' = "sent" /\ UNCHANGED <<open, page, calls, prompts, check>>
ReloadAnswer == reload = "sent" /\ reload' = State /\ UNCHANGED <<open, page, calls, prompts, check>>
Reloaded ==
    /\ reload \in {"open", "locked"} /\ reload' = "none"
    /\ believed' = (reload = "open")
    /\ UNCHANGED <<open, visible, notice, calls, prompts, check>>

UnlockScreen ==
    /\ ~believed /\ open' = TRUE /\ believed' = TRUE
    /\ UNCHANGED <<visible, notice, calls, prompts, reads>>

----------------------------------------------------------------------------
Next ==
    \/ Lock \/ Unlock \/ Look \/ ClickUnlock \/ UnlockScreen
    \/ \E r \in Messages : Send(r) \/ Handle(r) \/ Receive(r) \/ ReceiveAgain(r)
    \/ \E s \in Submissions : HandleUnlock(s) \/ Answered(s) \/ \E prompt \in Prompts : Submit(s, prompt)
    \/ \E prompt \in Prompts : NotNow(prompt)
    \/ Check \/ CheckAnswer \/ CheckFails \/ Checked \/ Reload \/ ReloadAnswer \/ Reloaded

Spec == Init /\ [][Next]_vars

(* Messages are answered, the user leaves or unlocks a prompt in the end,   *)
(* and the check runs every 20 s; a status read wakes the signer's worker,  *)
(* so it cannot fail for ever.  That an overlay is not Unused at times is    *)
(* only the bound: the page can always make one, hence SF for Receive.      *)
Fairness ==
    /\ \A r \in Messages : WF_vars(Handle(r)) /\ SF_vars(Receive(r)) /\ WF_vars(ReceiveAgain(r))
    /\ \A s \in Submissions : WF_vars(HandleUnlock(s)) /\ WF_vars(Answered(s))
    /\ \A prompt \in Prompts : WF_vars(NotNow(prompt))
    /\ WF_vars(Check) /\ SF_vars(CheckAnswer) /\ WF_vars(Checked)

FairSpec == Spec /\ Fairness

----------------------------------------------------------------------------
(* Properties                                                               *)

TypeOK ==
    /\ {open, believed, visible, notice} \subseteq BOOLEAN
    /\ request \in [Messages -> [at : Places, answer : Answers, prompt : Prompts \cup {None}]]
    /\ effects \in [Messages -> 0 .. 2]
    /\ refused \subseteq Messages /\ asked \subseteq Messages
    /\ shown \subseteq Prompts /\ unlocking \in shown \cup {None}
    /\ submission \in [Submissions -> [prompt : Prompts \cup {None}, answer : {"none", "ok", "wrong"}]]
    /\ {check, reload} \subseteq {"none", "sent", "open", "locked"}

(* A request is done at most once although it is sent twice, and not at all *)
(* when the user is told that it was not (app.ts:2234, "so this was not     *)
(* signed or sent").                                                        *)
ActsOnce ==
    \A r \in Messages :
        /\ effects[r] <= 1
        /\ request[r].at \in {"waiting", "sentAgain"} \/ request[r].answer \in {"Locked", "lockedMessage"}
             => effects[r] = 0

(* Who waits for a prompt finds its overlay on the page: one that is left   *)
(* behind is never taken for the shared one.                                *)
WaitersCanAnswer == \A r \in Messages : request[r].at = "waiting" => request[r].prompt \in shown

(* "a request that needs keys and is answered "Locked" asks for the         *)
(* password over the current screen" (app.ts:2228-2229).                    *)
LockedRequestsAsk == \A r \in Messages : request[r].at = "done" /\ r \in refused => r \in asked

(* A request ends, whatever happens to the prompt it waits for.             *)
RequestsEnd == \A r \in Messages : [](request[r].at = "sent" => <>(request[r].at = "done"))

(* The page, kept in view, learns that the signer has locked for good.      *)
LockIsNoticed == <>[](~open /\ visible /\ believed) => <>[]notice

(* And that it has opened again, for instance from another page.            *)
NoticeGoes == <>[](open /\ visible /\ believed) => <>[]~notice
=============================================================================
