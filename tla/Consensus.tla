------------------------------ MODULE Consensus ------------------------------
(***************************************************************************)
(* The leader side of the consensus placeholder (src/eth/consensus.rs).    *)
(*                                                                         *)
(* Consensus::new on a node with a hostname and a LEADER_NODE creates an   *)
(* mpsc channel of 32 and spawns a task that discovers the followers once  *)
(* (the other stratus-api pods; `.expect` panics the task when discovery  *)
(* fails) and then, for every string received, calls                      *)
(* append_entries_to_followers with one Entry { index: 0, data }: the      *)
(* followers are served one after the other, each by append_entries, which *)
(* connects a client and makes up to RETRY_ATTEMPTS calls, sleeping        *)
(* RETRY_DELAY after each failed one. Errors are logged and dropped.       *)
(*                                                                         *)
(* A call can fail before the follower appends (request lost, refused) or *)
(* after it (response lost, or late past the client's timeout).           *)
(***************************************************************************)
EXTENDS Naturals, Sequences, FiniteSets, SequencesExt

CONSTANTS
    Followers,      \* the stratus-api pods other than this node
    Data,           \* strings sent on the channel
    Capacity,       \* capacity of the mpsc channel (32)
    RetryAttempts   \* RETRY_ATTEMPTS (3)

ASSUME Capacity \in Nat \ {0} /\ RetryAttempts \in Nat \ {0}

VARIABLES
    chan,           \* the channel's buffered strings
    sent,           \* history: every string sent, in send order
    task,           \* "standalone", "discovering", "recv", "connect", "attempt", "dead"
    order,          \* followers as discover_followers listed them
    cur,            \* the string being replicated
    fi,             \* index in `order` of the follower being served
    attempt,        \* attempt number of append_entries
    logs,           \* entries each follower has appended, in order
    calls           \* calls made for (string, follower)

vars == <<chan, sent, task, order, cur, fi, attempt, logs, calls>>

-----------------------------------------------------------------------------
(* Consensus::new: without a hostname or a leader name the node runs      *)
(* new_stand_alone; otherwise the replication task starts by discovering  *)
(* the followers.                                                          *)
Init ==
    /\ chan = << >>
    /\ sent = << >>
    /\ task \in {"standalone", "discovering"}
    /\ order = << >>
    /\ cur = CHOOSE d \in Data : TRUE
    /\ fi = 1
    /\ attempt = 1
    /\ logs = [f \in Followers |-> << >>]
    /\ calls = [p \in Data \X Followers |-> 0]

(* A caller of sender.send: it waits while the channel is full. Every      *)
(* string is sent once, to keep the model finite.                          *)
Send(d) ==
    /\ d \notin Range(sent)
    /\ task # "dead"
    /\ Len(chan) < Capacity
    /\ chan' = Append(chan, d)
    /\ sent' = Append(sent, d)
    /\ UNCHANGED <<task, order, cur, fi, attempt, logs, calls>>

(* After the task panicked the receiver is dropped: send returns Err at   *)
(* once and the string is lost.                                           *)
SendClosed(d) ==
    /\ d \notin Range(sent)
    /\ task = "dead"
    /\ sent' = Append(sent, d)
    /\ UNCHANGED <<chan, task, order, cur, fi, attempt, logs, calls>>

(* discover_followers lists, once, the pods that exist at that moment, in *)
(* the order of the listing; pods started later are never added.          *)
DiscoverFollowers ==
    /\ task = "discovering"
    /\ \E s \in UNION { SetToSeqs(S) : S \in SUBSET Followers } : order' = s
    /\ task' = "recv"
    /\ UNCHANGED <<chan, sent, cur, fi, attempt, logs, calls>>

(* The Kubernetes API fails: `.expect` panics and the task is gone with   *)
(* the receiver.                                                           *)
DiscoverFollowersFails ==
    /\ task = "discovering"
    /\ task' = "dead"
    /\ UNCHANGED <<chan, sent, order, cur, fi, attempt, logs, calls>>

(* recv() returns string d and leaves `rest` in the channel;               *)
(* append_entries_to_followers starts with the first follower.             *)
Take(d, rest) ==
    /\ cur' = d /\ chan' = rest /\ fi' = 1 /\ task' = "connect"
    /\ UNCHANGED <<sent, order, attempt, logs, calls>>

(* Variant of recv() that takes the newest string.                       *)
ReceiveNewest == task = "recv" /\ chan # << >> /\ Take(Last(chan), Front(chan))

(* Variant of the receiver that waits until the channel is full.         *)
ReceiveFullChannel == task = "recv" /\ Len(chan) = Capacity /\ Take(Head(chan), Tail(chan))

(* receiver.recv() takes the oldest string.                                *)
Receive == task = "recv" /\ chan # << >> /\ Take(Head(chan), Tail(chan))

(* The task of new_stand_alone: recv() and log the string.                 *)
ReceiveStandalone ==
    /\ task = "standalone"
    /\ chan # << >>
    /\ chan' = Tail(chan)
    /\ UNCHANGED <<sent, task, order, cur, fi, attempt, logs, calls>>

(* The follower after the current one, or back to recv() after the last.  *)
NextFollower ==
    /\ fi' = fi + 1
    /\ task' = IF fi < Len(order) THEN "connect" ELSE "recv"

(* Variant in which new_http_ws never returns: a client built without any *)
(* timeout towards an unreachable follower; the task stays alive, holding *)
(* the receiver.                                                           *)
ConnectHangs ==
    /\ task = "connect"
    /\ fi <= Len(order)
    /\ task' = "hung"
    /\ UNCHANGED <<chan, sent, order, cur, fi, attempt, logs, calls>>

(* BlockchainClient::new_http_ws succeeds: the first attempt follows.      *)
Connect ==
    /\ task = "connect"
    /\ fi <= Len(order)
    /\ attempt' = 1
    /\ task' = "attempt"
    /\ UNCHANGED <<chan, sent, order, cur, fi, logs, calls>>

(* Variant that panics when the client cannot be created (an .expect in   *)
(* place of the `?`).                                                      *)
ConnectFailsPanics ==
    /\ task = "connect"
    /\ fi <= Len(order)
    /\ task' = "dead"
    /\ UNCHANGED <<chan, sent, order, cur, fi, attempt, logs, calls>>

(* The client cannot be created: `?` returns the error, which is logged.   *)
ConnectFails ==
    /\ task = "connect"
    /\ fi <= Len(order)
    /\ NextFollower
    /\ UNCHANGED <<chan, sent, order, cur, attempt, logs, calls>>

(* No follower was discovered: the loop over followers is empty.          *)
NoFollowers ==
    /\ task = "connect"
    /\ order = << >>
    /\ task' = "recv"
    /\ UNCHANGED <<chan, sent, order, cur, fi, attempt, logs, calls>>

(* One call of client.append_entries, counted for the properties.          *)
Call(f) == calls' = [calls EXCEPT ![<<cur, f>>] = @ + 1]

(* The call reaches the current follower, which appends the entry.        *)
Appended ==
    LET f == order[fi] IN Call(f) /\ logs' = [logs EXCEPT ![f] = Append(@, cur)]

(* Variant that counts attempts from 0 (0..=RETRY_ATTEMPTS).              *)
AfterFailureOneMore ==
    IF attempt <= RetryAttempts
    THEN attempt' = attempt + 1 /\ fi' = fi /\ task' = "attempt"
    ELSE NextFollower /\ attempt' = attempt

(* Variant that gives up after the first failed call.                    *)
AfterFailureNoRetry ==
    NextFollower /\ attempt' = attempt

(* After a failed call: sleep and try again, or give up after the last    *)
(* attempt (the sleep after it included).                                  *)
AfterFailure ==
    IF attempt < RetryAttempts
    THEN attempt' = attempt + 1 /\ fi' = fi /\ task' = "attempt"
    ELSE NextFollower /\ attempt' = attempt

(* The call returns Ok, and append_entries returns.                         *)
AttemptOk ==
    /\ task = "attempt"
    /\ Appended
    /\ NextFollower
    /\ UNCHANGED <<chan, sent, order, cur, attempt>>

(* The call returns Err before the follower appended anything.             *)
AttemptLost ==
    /\ task = "attempt"
    /\ Call(order[fi])
    /\ AfterFailure
    /\ UNCHANGED <<chan, sent, order, cur, logs>>

(* The call returns Err although the follower appended the entry: its      *)
(* response was lost or came after the client's timeout.                  *)
AttemptResponseLost ==
    /\ task = "attempt"
    /\ Appended
    /\ AfterFailure
    /\ UNCHANGED <<chan, sent, order, cur>>

TaskStep ==
    \/ ReceiveStandalone
    \/ DiscoverFollowers \/ DiscoverFollowersFails \/ Receive
    \/ Connect \/ ConnectFails \/ NoFollowers
    \/ AttemptOk \/ AttemptLost \/ AttemptResponseLost

(* Once every string is sent the task waits in recv() for good: the model *)
(* stops there.                                                            *)
Next == (\E d \in Data : Send(d) \/ SendClosed(d)) \/ TaskStep

(* Every call of the task ends, with Ok or with an error: the client is    *)
(* created with new_http_ws(follower, None), and the model assumes that    *)
(* BlockchainClient (not in the sources) then applies a default timeout.   *)
(* The scheduler keeps running the spawned task.                           *)
(* A caller waiting in send().await is woken once the channel has room    *)
(* (or the receiver is gone): each caller is fair on its own send.         *)
Spec ==
    /\ Init /\ [][Next]_vars
    /\ WF_vars(TaskStep)
    /\ \A d \in Data : WF_vars(Send(d) \/ SendClosed(d))

-----------------------------------------------------------------------------
(* Position of a string in send order.                                     *)
SentAt(d) == CHOOSE i \in DOMAIN sent : sent[i] = d

(* The task is through with a sent string: it has left the channel and    *)
(* append_entries_to_followers has returned for it.                        *)
Finished(d) ==
    /\ d \in Range(sent)
    /\ d \notin Range(chan)
    /\ task # "dead"
    /\ ~(cur = d /\ task \in {"connect", "attempt"})

TypeOK ==
    /\ chan \in Seq(Data) /\ Len(chan) <= Capacity
    /\ sent \in Seq(Data)
    /\ task \in {"standalone", "discovering", "recv", "connect", "attempt", "dead"}
    /\ order \in Seq(Followers)
    /\ cur \in Data
    /\ fi \in 1..(Cardinality(Followers) + 1)
    /\ attempt \in 1..RetryAttempts
    /\ logs \in [Followers -> Seq(Data)]
    /\ calls \in [Data \X Followers -> 0..RetryAttempts]

(* Every follower appends the strings in the order they were sent on the  *)
(* channel, retries included: the single task replicates one string to    *)
(* every follower before it takes the next.                                *)
FollowerOrder ==
    \A f \in Followers : \A i, j \in DOMAIN logs[f] :
        i < j => SentAt(logs[f][i]) <= SentAt(logs[f][j])

(* A discovered follower misses a string only when append_entries used up *)
(* all RETRY_ATTEMPTS calls on it, or could not even create the client.   *)
MissedOnlyAfterRetries ==
    \A d \in Data, f \in Followers :
        (Finished(d) /\ f \in Range(order) /\ d \notin Range(logs[f]))
            => calls[<<d, f>>] \in {0, RetryAttempts}

(* The only panic of the task is the failed discovery, before any recv(): *)
(* a string is lost only when nothing at all was replicated.               *)
PanickedBeforeReplicating ==
    task = "dead" /\ \A f \in Followers : logs[f] = << >>

(* Every string sent is eventually finished with, unless discovery         *)
(* panicked before the task replicated anything: the retries of            *)
(* append_entries are bounded, so no follower holds up the channel         *)
(* forever, and a client that cannot be created is skipped, not fatal.     *)
EveryStringFinished ==
    \A d \in Data : d \in Range(sent) ~> (Finished(d) \/ PanickedBeforeReplicating)

(* The channel holds Capacity strings and send().await waits while it is  *)
(* full; the single task drains it only between its calls to followers,   *)
(* each of which may retry up to RETRY_ATTEMPTS times. Still, every caller *)
(* of send eventually gets through (or gets the Err of a dropped          *)
(* receiver): no follower holds up the senders for good.                   *)
SendersProceed ==
    \A d \in Data : <>(d \in Range(sent))

=============================================================================
