------------------------------- MODULE Promote -------------------------------
(***************************************************************************)
(* Delivery: harnessd/promote.py, the gated copy or push of an accepted    *)
(* node's workspace to its destination outside the jail, and the block it  *)
(* stamps on the node's binding through executor.deliver.                  *)
(*                                                                         *)
(* One node is promoted; the IPC thread serves one request at a time.  Its *)
(* agents go on writing their workspace meanwhile.  A file is a version: 1 *)
(* as L1 first finds it, 0 where it has not arrived.  MaxCalls bounds,     *)
(* together, what the agents write and the accepts that are sent.          *)
(***************************************************************************)
EXTENDS Naturals

CONSTANTS File, MaxCalls

ASSUME PromoteAssumption == MaxCalls \in Nat

Routes == {"filesystem-path", "git-remote"}

VARIABLES
    spec,       \* the route, or else, that section 8 of the intent-spec names
    workspace,  \* the node's files
    head,       \* what of them is committed
    block,      \* the delivery block of the node's binding
    arrived,    \* what each route has brought to the destination
    promo,      \* the promote that is running, or NoPromote
    accepted,   \* what the last promote stamped delivered had to deliver
    calls       \* how many of MaxCalls have been made

promoteVars == <<spec, workspace, head, block, arrived, promo, accepted,
                 calls>>

Contents == [File -> 0 .. MaxCalls + 1]

Nothing == [f \in File |-> 0]

Finished == [f \in File |-> 1]

NoPromote == [step |-> "none", to |-> "none", kind |-> "none",
              due |-> Nothing, left |-> {}, error |-> FALSE]

(***************************************************************************)
(* Nothing in harnessd stamps a destination before the first promote, nor  *)
(* ever its kind; an operator may have stamped what the spec names.        *)
(***************************************************************************)
PromoteInit ==
    /\ spec \in Routes \cup {"none", "in-place"}
    /\ workspace = Finished
    /\ head = Finished
    /\ \/ block = [state |-> "briefed", to |-> "none", kind |-> "none"]
       \/ /\ spec \in Routes
          /\ block = [state |-> "briefed", to |-> "external", kind |-> spec]
    /\ arrived = [r \in Routes |-> Nothing]
    /\ promo = NoPromote
    /\ accepted = Nothing
    /\ calls = 0

-----------------------------------------------------------------------------
\* _intake_gate: the destination and the kind of it the spec derives.
DerivedDest == IF spec \in Routes THEN "external" ELSE spec

DerivedKind == spec

Called == calls < MaxCalls /\ calls' = calls + 1

\* The agents write and commit; only a push looks at what is committed.
AgentWrites(f) ==
    /\ Called
    /\ workspace' = [workspace EXCEPT ![f] = @ + 1]
    /\ UNCHANGED <<spec, head, block, arrived, promo, accepted>>

AgentCommits ==
    /\ spec = "git-remote"
    /\ head # workspace
    /\ head' = workspace
    /\ UNCHANGED <<spec, workspace, block, arrived, promo, accepted, calls>>

(***************************************************************************)
(* An accept bound to the node passes the gates; one that is held, or that *)
(* an unconfirmed or ambiguous intent-spec refuses, changes nothing.  The  *)
(* destination is the binding's, with the binding's kind; only when it has *)
(* none are both derived.  A missing destination goes the way of a failed  *)
(* copy, and in-place needs none.                                          *)
(***************************************************************************)
BeginPromote ==
    /\ promo = NoPromote
    /\ Called
    /\ LET derive == block.to = "none"
           to   == IF derive THEN DerivedDest ELSE block.to
           kind == IF derive THEN DerivedKind ELSE block.kind
           push == kind = "git-remote"
       IN promo' =
            [step  |-> CASE to = "none" -> "fail"
                         [] to = "in-place" -> "stamp"
                         [] OTHER -> IF push THEN "push" ELSE "copy",
             to    |-> to,
             kind  |-> kind,
             due   |-> IF push THEN head ELSE workspace,
             left  |-> File,
             error |-> FALSE]
    /\ UNCHANGED <<spec, workspace, head, block, arrived, accepted>>

\* A slip: the last file's failure is the only one that is raised.
NoteLastError(failed) == failed

\* copytree goes on after a file it could not copy, and raises at its end.
NoteError(failed) == promo.error \/ failed

(***************************************************************************)
(* _copy_out_filesystem: copytree over what is there, file by file of the  *)
(* listing it began with.  A file may fail, as one that is gone by then.   *)
(***************************************************************************)
CopyFile(f, failed) ==
    /\ promo.step = "copy" /\ f \in promo.left
    /\ promo' = [promo EXCEPT !.left = @ \ {f}, !.error = NoteError(failed)]
    /\ arrived' = IF failed THEN arrived
                  ELSE [arrived EXCEPT !["filesystem-path"][f] = workspace[f]]
    /\ UNCHANGED <<spec, workspace, head, block, accepted, calls>>

CopyEnds ==
    /\ promo.step = "copy" /\ promo.left = {}
    /\ promo' = [promo EXCEPT !.step = IF promo.error THEN "fail" ELSE "stamp"]
    /\ UNCHANGED <<spec, workspace, head, block, arrived, accepted, calls>>

\* _push_git_remote: all of HEAD, or a non-zero exit.
Push ==
    /\ promo.step = "push"
    /\ \/ /\ arrived' = [arrived EXCEPT !["git-remote"] = head]
          /\ promo' = [promo EXCEPT !.step = "stamp"]
       \/ /\ promo' = [promo EXCEPT !.step = "fail"]
          /\ UNCHANGED arrived
    /\ UNCHANGED <<spec, workspace, head, block, accepted, calls>>

\* A slip: the derived kind is stamped too, in-place with the others.
StampedWithKind(state) ==
    [state |-> state, to |-> IF promo.to = "none" THEN block.to ELSE promo.to,
     kind |-> promo.kind]

\* executor.deliver: the state, the destination when there is one, and no kind.
Stamped(state) ==
    [block EXCEPT !.state = state,
                  !.to = IF promo.to = "none" THEN @ ELSE promo.to]

StampDelivered ==
    /\ promo.step = "stamp"
    /\ block' = Stamped("delivered")
    /\ accepted' = promo.due
    /\ promo' = NoPromote
    /\ UNCHANGED <<spec, workspace, head, arrived, calls>>

\* The failure's stamp; the escalation row after it changes no binding.
StampFailed ==
    /\ promo.step = "fail"
    /\ block' = Stamped("delivery-failed")
    /\ promo' = NoPromote
    /\ UNCHANGED <<spec, workspace, head, arrived, accepted, calls>>

\* The daemon dies: what the promote knew is lost, what arrived stays.
PromoteDies ==
    /\ promo' = NoPromote
    /\ UNCHANGED <<spec, workspace, head, block, arrived, accepted, calls>>

\* What the daemon does.
PromoteStep ==
    \/ BeginPromote \/ CopyEnds \/ Push \/ StampDelivered \/ StampFailed
    \/ \E f \in File, failed \in BOOLEAN : CopyFile(f, failed)

\* What happens whether it runs or not.
PromoteEnvironment ==
    \/ \E f \in File : AgentWrites(f)
    \/ AgentCommits

-----------------------------------------------------------------------------
PromoteTypeOK ==
    /\ spec \in Routes \cup {"none", "in-place"}
    /\ workspace \in Contents
    /\ head \in Contents
    /\ block \in [state : {"briefed", "delivered", "delivery-failed"},
                  to : {"none", "in-place", "external"},
                  kind : Routes \cup {"none"}]
    /\ arrived \in [Routes -> Contents]
    /\ promo \in [step : {"none", "copy", "push", "stamp", "fail"},
                  to : {"none", "in-place", "external"},
                  kind : Routes \cup {"none", "in-place"},
                  due : Contents, left : SUBSET File, error : BOOLEAN]
    /\ accepted \in Contents
    /\ calls \in 0 .. MaxCalls

(***************************************************************************)
(* What "delivered" vouches for: outside the jail, by one route or the     *)
(* other, stands every file that was due when the gate let the promote     *)
(* pass, in the version it had then or a later one, whatever the agents    *)
(* wrote since, whichever copies failed, and wherever a daemon died.       *)
(***************************************************************************)
DeliveryVouches ==
    block.state = "delivered" /\ block.to = "external" =>
        \E r \in Routes : \A f \in File :
            arrived[r][f] >= accepted[f]

(***************************************************************************)
(* The kind of a destination "drives copy-out vs push at promotion"        *)
(* (design/DAEMON.md section 3): what is stamped delivered arrived by the  *)
(* route the intent-spec named.                                            *)
(***************************************************************************)
ArrivedAsNamed ==
    block.state = "delivered" /\ spec \in Routes =>
        \A f \in File : arrived[spec][f] >= accepted[f]
=============================================================================
