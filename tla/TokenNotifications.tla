-------------------------- MODULE TokenNotifications --------------------------
(* batch/processor_Notifications_Token.py: the watchers of token events.  The    *)
(* watcher of an attribute is in TokenCache.                                     *)
EXTENDS Notifications

Templates == {"IbetStraightBond", "IbetShare", "IbetCoupon", "IbetMembership"}

\* A watcher of all tokens, with the options the classes of the code set.
EventWatcher(type, event, whom) ==
    [type |-> type, event |-> event, whom |-> whom, option |-> 0, templates |-> Templates,
     fromPeople |-> FALSE, registeredOnly |-> FALSE, skipPast |-> FALSE]

WatchTransfer == [EventWatcher("Transfer", "Transfer", "to") EXCEPT !.fromPeople = TRUE]
WatchApplyForTransfer ==
    [EventWatcher("ApplyForTransfer", "ApplyForTransfer", "to") EXCEPT !.registeredOnly = TRUE]
WatchApproveTransfer ==
    [EventWatcher("ApproveTransfer", "ApproveTransfer", "from") EXCEPT !.registeredOnly = TRUE]
WatchCancelTransfer ==
    [EventWatcher("CancelTransfer", "CancelTransfer", "from") EXCEPT !.registeredOnly = TRUE]
WatchForceLock == EventWatcher("ForceLock", "ForceLock", "account")
WatchForceUnlock == EventWatcher("ForceUnlock", "ForceUnlock", "account")
WatchChangeToRedeemed ==
    [EventWatcher("ChangeToRedeemed", "ChangeToRedeemed", "nobody") EXCEPT
        !.templates = {"IbetStraightBond"}, !.skipPast = TRUE]
WatchChangeToCanceled ==
    [EventWatcher("ChangeToCanceled", "ChangeToCanceled", "nobody") EXCEPT
        !.templates = {"IbetShare"}, !.skipPast = TRUE]

\* _get_token_all_list: listed tokens of the watcher's templates, in any order.
TokenLists(w) == SetToSeqs({t \in listed : TemplateOf[t] \in w.templates})

\* EventWatcher.loop.
Loop(w) ==
    \/ \E tokens \in TokenLists(w) : Begin(w, tokens)
    \/ UpToDate(w)
    \/ WatchContract(w)
    \/ LogsFail(w)
    \/ EndPass(w)

\* main: the watchers run concurrently, again and again.
Watchers ==
    {WatchTransfer, WatchApplyForTransfer, WatchApproveTransfer, WatchCancelTransfer,
     WatchForceLock, WatchForceUnlock, WatchChangeToRedeemed, WatchChangeToCanceled}

Watch == \E w \in running : Loop(w)

Next == Watch \/ Api \/ (ChainNext /\ NotificationsFrame)

Init == NotificationsInit(Watchers)

Spec == Init /\ [][Next]_noteVars
===============================================================================
