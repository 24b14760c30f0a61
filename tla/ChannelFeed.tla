----------------------------- MODULE ChannelFeed -----------------------------
(***************************************************************************)
(* What a tab shows of a channel or of a thread in one: the variable       *)
(* `messages` of Channel.svelte and Thread.svelte, newest first, against   *)
(* the server's messages (models/messages.py, routers/channels.py).        *)
(* Names carry the prefix Feed where Ydoc has its own.                     *)
(*                                                                         *)
(* The list is read in pages, by HTTP; what happens afterwards comes as    *)
(* events, over the socket, in order.  A page and an event do not know of  *)
(* each other: a page is found by its offset, `messages.length`.           *)
(*                                                                         *)
(* A feed is the messages of a channel or the replies to a message; the    *)
(* latter message ends the thread's list and is not deleted here.  Of      *)
(* content only versions are kept: an edit stands for a reaction too.      *)
(* A deletion, whoever asks for it, is what the server does: what          *)
(* Messages.svelte hides meanwhile comes back with the next change.  Left  *)
(* out: typing, scrolling, lost connections.                               *)
(***************************************************************************)
EXTENDS Integers, Sequences, SequencesExt

CONSTANTS Channels, Threads,   \* feeds
          PageSize,            \* 50 in the code
          Nowhere, Slots,      \* no feed; requests that may be under way at once
          Existing,            \* messages there are at the start
          MaxMessages, MaxEdits, MaxMoves  \* bounds

ASSUME FeedsAssumption == Channels \cap Threads = {} /\ Nowhere \notin Channels \cup Threads
ASSUME BoundsAssumption == PageSize \in Nat \ {0} /\ Existing \in 0 .. MaxMessages /\ MaxMessages \in Nat /\ MaxEdits \in Nat /\ MaxMoves \in Nat

VARIABLES stored,      \* the ids of a feed, newest first
          version,     \* of a message
          feed,        \* what is shown: id or threadId
          loaded, list,\* messages is not null; the messages in it, each with its version
          top,         \* the list is taken to be complete
          loadingMore, \* messagesLoading of Messages.svelte
          calls,       \* requests under way, by slot
          events,      \* to the tab, in order
          made, edits, moves,  \* counters
          raced        \* history: a request and an event have met, see below

server == <<stored, version, made, edits>>
view   == <<feed, loaded, list, top, loadingMore>>
feedVars == <<server, view, calls, events, moves, raced>>

Feeds   == Channels \cup Threads
Ids     == 1 .. MaxMessages
Parent  == 0
Entry(m) == [id |-> m, version |-> IF m = Parent THEN 0 ELSE version[m]]
Entries == [id : 0 .. MaxMessages, version : 0 .. MaxEdits]

\* Requests: of initHandler (channel, list), onLoad (more; stray once its list is gone) and
\* onEdit (edit). `skip` is the offset of a page, the id for an edit.
Call(kind, f, skip) == [kind |-> kind, feed |-> f, skip |-> skip, served |-> FALSE, page |-> <<>>, version |-> 0]
Free    == Call("free", Nowhere, 0)
Reading == {"list", "more", "stray"}

FeedTypeOK ==
    /\ stored \in [Feeds -> Seq(Ids)] /\ version \in [Ids -> 0 .. MaxEdits]
    /\ feed \in Feeds \cup {Nowhere} /\ loaded \in BOOLEAN /\ top \in BOOLEAN /\ loadingMore \in BOOLEAN
    /\ list \in Seq(Entries)
    /\ calls \in [Slots -> [kind : Reading \cup {"free", "channel", "edit"}, feed : Feeds \cup {Nowhere}, skip : Nat,
                            served : BOOLEAN, page : Seq(Entries), version : 0 .. MaxEdits]]
    /\ \A s \in Slots : calls[s].kind = "edit" => calls[s].skip \in Ids
    /\ events \in Seq([what : {"message", "update", "delete"}, feed : Feeds, entry : [id : Ids, version : 0 .. MaxEdits]])
    /\ made \in 0 .. MaxMessages /\ edits \in 0 .. MaxEdits /\ moves \in 0 .. MaxMoves /\ raced \in BOOLEAN

\* Some messages are there already
FeedInit ==
    /\ made = Existing
    /\ \E f \in Feeds : stored = [x \in Feeds |-> IF x = f THEN Reverse([i \in 1 .. Existing |-> i]) ELSE <<>>]
    /\ version = [m \in Ids |-> 0]
    /\ feed = Nowhere /\ loaded = FALSE /\ list = <<>> /\ top = FALSE /\ loadingMore = FALSE
    /\ calls = [s \in Slots |-> Free] /\ events = <<>>
    /\ edits = 0 /\ moves = 0 /\ raced = FALSE

Begin(s, call) == calls[s] = Free /\ calls' = [calls EXCEPT ![s] = call]
End(s)         == calls' = [calls EXCEPT ![s] = Free]

\* An event for f is still to come
Queued(f)      == \E i \in DOMAIN events : events[i].feed = f
\* A page of f is still to come
BeingRead(f)   == \E s \in Slots : calls[s].kind \in Reading /\ calls[s].feed = f
\* An answer that the view waits for, or no longer does
Awaited        == {s \in Slots : calls[s].kind \in Reading \cup {"channel"}}

-----------------------------------------------------------------------------
(* The view *)

Shows(f) ==
    /\ feed' = f /\ loaded' = FALSE /\ list' = <<>> /\ top' = FALSE /\ loadingMore' = FALSE

\* initHandler: a new component, or the one of the same kind with another id. It forgets
\* everything, but not the answers that are still to come.
Open(f, s) ==
    /\ f # feed /\ moves < MaxMoves /\ moves' = moves + 1
    /\ feed = Nowhere \/ {feed, f} \subseteq Channels \/ {feed, f} \subseteq Threads
    /\ Shows(f)
    /\ calls[s] = Free
    /\ calls' = [x \in Slots |-> IF x = s THEN Call(IF f \in Channels THEN "channel" ELSE "list", f, 0)
                                 ELSE IF calls[x].kind = "more" THEN [calls[x] EXCEPT !.kind = "stray"] ELSE calls[x]]
    /\ raced' = (Awaited # {} \/ (f \in Threads /\ Queued(f)))
    /\ UNCHANGED <<server, events>>

\* The user leaves, or the channel cannot be read (goto('/')): the component is gone
Leave ==
    /\ feed # Nowhere /\ Shows(Nowhere)
    /\ calls' = [s \in Slots |-> IF s \in Awaited THEN Free ELSE calls[s]]
    /\ UNCHANGED <<server, events, moves, raced>>

\* getChannelById is answered: the messages of `id` are asked for, whatever it is by now
ChannelAnswered(s) ==
    /\ calls[s].kind = "channel"
    /\ calls' = [calls EXCEPT ![s] = Call("list", feed, 0)]
    /\ raced' = (raced \/ Queued(feed))
    /\ UNCHANGED <<server, view, events, moves>>

ListAnswered(s) ==
    /\ calls[s].kind = "list" /\ calls[s].served
    /\ loaded' = TRUE /\ list' = calls[s].page
    /\ top' = (top \/ Len(list') < PageSize)
    /\ End(s)
    /\ UNCHANGED <<server, feed, loadingMore, events, moves, raced>>

\* Mutant: nothing waits for the page that is under way
LoadMoreAgain(s) ==
    /\ loaded /\ ~top
    /\ Begin(s, Call("more", feed, Len(list)))
    /\ loadingMore' = TRUE
    /\ raced' = (raced \/ Queued(feed) \/ \E i \in DOMAIN list : list[i].id = Parent)
    /\ UNCHANGED <<server, feed, loaded, list, top, events, moves>>

\* loadMoreMessages and onLoad: the next page starts where the list ends
LoadMore(s) ==
    /\ loaded /\ ~top /\ ~loadingMore
    /\ Begin(s, Call("more", feed, Len(list)))
    /\ loadingMore' = TRUE
    /\ raced' = (raced \/ Queued(feed) \/ \E i \in DOMAIN list : list[i].id = Parent)
    /\ UNCHANGED <<server, feed, loaded, list, top, events, moves>>

\* The page is appended to whatever list there is, if there is one
MoreAnswered(s) ==
    /\ calls[s].kind \in {"more", "stray"} /\ calls[s].served
    /\ IF loaded THEN list' = list \o calls[s].page /\ top' = (top \/ Len(calls[s].page) < PageSize)
       ELSE UNCHANGED <<list, top>>
    /\ loadingMore' = (loadingMore /\ calls[s].kind = "stray")
    /\ End(s)
    /\ UNCHANGED <<server, feed, loaded, events, moves, raced>>

\* A page cannot be read: nothing is caught, and no more is loaded
ReadFails(s) ==
    /\ calls[s].kind \in Reading
    /\ End(s)
    /\ UNCHANGED <<server, view, events, moves, raced>>

Position(m) == SelectInSeq(list, LAMBDA e : e.id = m)

\* onEdit: the message is changed at once
OnEdit(m, s) ==
    /\ Position(m) # 0 /\ edits < MaxEdits /\ edits' = edits + 1
    /\ list' = [list EXCEPT ![Position(m)].version = edits + 1]
    /\ Begin(s, [Call("edit", feed, m) EXCEPT !.version = edits + 1])
    /\ UNCHANGED <<stored, version, made, feed, loaded, top, loadingMore, events, moves, raced>>

\* What is left of a sequence: the elements in S, in their order
Among(seq, S) ==
    LET kept[n \in 0 .. Len(seq)] ==
          IF n = 0 THEN <<>> ELSE IF seq[n] \in S THEN Append(kept[n - 1], seq[n]) ELSE kept[n - 1]
    IN  kept[Len(seq)]

\* Mutant: only where the message is already
EventOfShown ==
    /\ events # <<>> /\ events' = Tail(events)
    /\ LET e == Head(events) IN
       list' = IF ~loaded THEN list
               ELSE IF e.what = "message" THEN list
               ELSE IF e.what = "delete" THEN Among(list, {x \in Entries : x.id # e.entry.id})
               ELSE IF Position(e.entry.id) = 0 THEN list
               ELSE [list EXCEPT ![Position(e.entry.id)] = e.entry]
    /\ UNCHANGED <<server, feed, loaded, top, loadingMore, calls, moves, raced>>

\* Mutant: the whole event is kept
EventWhole ==
    /\ events # <<>> /\ events' = Tail(events)
    /\ LET e == Head(events) IN
       list' = IF ~loaded THEN list
               ELSE IF e.what = "message" THEN IF e.feed = feed THEN <<e>> \o list ELSE list
               ELSE IF e.what = "delete" THEN Among(list, {x \in Entries : x.id # e.entry.id})
               ELSE IF Position(e.entry.id) = 0 THEN list
               ELSE [list EXCEPT ![Position(e.entry.id)] = e.entry]
    /\ UNCHANGED <<server, feed, loaded, top, loadingMore, calls, moves, raced>>

\* channelEventHandler: before the list is there an event is dropped (in Channel.svelte by a
\* TypeError). A new message goes first; nothing looks whether it is there already.
Event ==
    /\ events # <<>> /\ events' = Tail(events)
    /\ LET e == Head(events) IN
       list' = IF ~loaded THEN list
               ELSE IF e.what = "message" THEN IF e.feed = feed THEN <<e.entry>> \o list ELSE list
               ELSE IF e.what = "delete" THEN Among(list, {x \in Entries : x.id # e.entry.id})
               ELSE IF Position(e.entry.id) = 0 THEN list
               ELSE [list EXCEPT ![Position(e.entry.id)] = e.entry]
    /\ UNCHANGED <<server, feed, loaded, top, loadingMore, calls, moves, raced>>

-----------------------------------------------------------------------------
(* The server: a change and its event are one step of its loop *)

Emit(what, f, e) ==
    /\ events' = Append(events, [what |-> what, feed |-> f, entry |-> e])
    /\ raced' = (raced \/ BeingRead(f))

FeedOf(m) == {f \in Feeds : Contains(stored[f], m)}

\* new_message_handler
Post(f) ==
    /\ made < MaxMessages /\ made' = made + 1
    /\ stored' = [stored EXCEPT ![f] = <<made + 1>> \o @]
    /\ Emit("message", f, Entry(made + 1))
    /\ UNCHANGED <<version, edits, view, calls, moves>>

\* update_message_by_id for another user, or a reaction
Edit(m) ==
    /\ edits < MaxEdits /\ edits' = edits + 1
    /\ version' = [version EXCEPT ![m] = edits + 1]
    /\ \E f \in FeedOf(m) : Emit("update", f, [id |-> m, version |-> edits + 1])
    /\ UNCHANGED <<stored, made, view, calls, moves>>

\* delete_message_by_id
Delete(m) ==
    /\ \E f \in FeedOf(m) : /\ stored' = [stored EXCEPT ![f] = Among(@, Ids \ {m})]
                            /\ Emit("delete", f, Entry(m))
    /\ UNCHANGED <<version, made, edits, view, calls, moves>>

\* The edit of onEdit is served: the message is gone, or changed
EditServed(s) ==
    /\ calls[s].kind = "edit"
    /\ LET m == calls[s].skip IN
       IF FeedOf(m) = {} THEN UNCHANGED <<version, events, raced>>
       ELSE /\ version' = [version EXCEPT ![m] = calls[s].version]
            /\ \E f \in FeedOf(m) : Emit("update", f, [id |-> m, version |-> calls[s].version])
    /\ End(s)
    /\ UNCHANGED <<stored, made, edits, view, moves>>

\* It is refused or does not arrive: the change stays on the screen
EditRefused(s) ==
    /\ calls[s].kind = "edit"
    /\ End(s)
    /\ raced' = TRUE
    /\ UNCHANGED <<server, view, events, moves>>

\* get_messages_by_channel_id, get_messages_by_parent_id: a page that is not full ends with
\* the parent message
Page(f, skip) ==
    LET page == SubSeq(stored[f], skip + 1, IF skip + PageSize < Len(stored[f]) THEN skip + PageSize ELSE Len(stored[f]))
        ids  == page \o IF f \in Threads /\ Len(page) < PageSize THEN <<Parent>> ELSE <<>>
    IN  [i \in DOMAIN ids |-> Entry(ids[i])]

ReadServed(s) ==
    /\ calls[s].kind \in Reading /\ ~calls[s].served
    /\ calls' = [calls EXCEPT ![s].served = TRUE, ![s].page = Page(calls[s].feed, calls[s].skip)]
    /\ UNCHANGED <<server, view, events, moves, raced>>

-----------------------------------------------------------------------------
Viewing(s) ==
    \/ \E f \in Feeds : Open(f, s)
    \/ ChannelAnswered(s) \/ ListAnswered(s) \/ LoadMore(s) \/ MoreAnswered(s) \/ ReadFails(s)
    \/ \E m \in Ids : OnEdit(m, s)
Serving == \/ \E f \in Feeds : Post(f)
           \/ \E m \in Ids : Edit(m) \/ Delete(m)
           \/ \E s \in Slots : EditServed(s) \/ EditRefused(s) \/ ReadServed(s)

FeedNext == Leave \/ Event \/ Serving \/ \E s \in Slots : Viewing(s)

FeedSpec == FeedInit /\ [][FeedNext]_feedVars

-----------------------------------------------------------------------------
(* Properties. `raced` names when a page and the events disagree: a feed is opened while an
   answer of another is awaited; a page is asked for before all events of its feed are in, or
   its feed changes before it is in; a thread's next page is asked for though its parent
   message is there; an edit is refused. Opening the feed in quiet mends all of it. *)

\* No message is in the list twice (the keys of the list must differ).
NothingTwice == ~raced => \A i, j \in DOMAIN list : list[i].id = list[j].id => i = j

\* All there is of the feed shown
Whole == LET ids == stored[feed] \o IF feed \in Threads THEN <<Parent>> ELSE <<>>
         IN  [i \in DOMAIN ids |-> Entry(ids[i])]

\* When all events and answers are in, the list is the newest part of the feed as it is
\* stored, without a gap, each message in its last version; all of it where the list says so.
ListIsFeed ==
    ~raced /\ loaded /\ events = <<>> /\ (\A s \in Slots : calls[s] = Free)
    => /\ IsPrefix(list, Whole)
       /\ top => list = Whole
=============================================================================
