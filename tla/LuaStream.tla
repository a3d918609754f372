----------------------------- MODULE LuaStream -----------------------------
(***************************************************************************)
(* The output to a Lua script (src/lua/src/stream.cc, luabinding.cc).      *)
(* Because a Lua interpreter belongs to one thread, the stream runs a      *)
(* thread of its own: write() puts the event in the exposed queue, the     *)
(* thread swaps the exposed queue with its own when its own is empty, and  *)
(* hands the events to the script one by one.  What the script has dealt   *)
(* with is counted in the atomic _acks_count, which write() and flush()    *)
(* give back to the muxer.                                                 *)
(*                                                                         *)
(* A script may keep events in a stack and send them together.  The muxer  *)
(* has a bounded queue and does not hand out events while it is full, so   *)
(* script and muxer can wait for each other: flush() is there to undo      *)
(* that knot (doc/en/exploit/stream_connectors.rst:458-475).               *)
(*                                                                         *)
(* The caller is the thread of processing::failover; the script and the    *)
(* muxer are external.                                                     *)
(***************************************************************************)
EXTENDS Naturals, Sequences, FiniteSets

CONSTANTS
    ScriptEvents,   \* bound on the events: they are 1 .. ScriptEvents
    QueueSize       \* events the muxer hands out before one is acknowledged

ASSUME LuaAssumption == ScriptEvents \in Nat

VARIABLES
    exposed, events, \* _exposed_events and the queue of the thread
    total,           \* luabinding::_total
    acksCount,       \* _acks_count
    flush, exit,     \* _flush and _exit
    tpc,             \* where the thread is
    cpc, retval,     \* where the caller is, what it read of _acks_count
    given,           \* events the muxer has handed out, acked or not
    returned,        \* events acknowledged to the muxer
    hasFlush,        \* script: it defines flush()
    stack, settled   \* script: events kept, events done with

callerVars == <<cpc, retval, given, returned>>
threadVars == <<tpc, events, total>>
scriptVars == <<stack, settled>>
luaVars == <<exposed, acksCount, flush, exit, hasFlush,
             callerVars, threadVars, scriptVars>>

ScriptEvent == 1 .. ScriptEvents
handled == given - Len(exposed) - Len(events)

LuaTypeOK ==
    /\ exposed \in Seq(ScriptEvent) /\ events \in Seq(ScriptEvent)
    /\ total \in 0 .. ScriptEvents /\ acksCount \in 0 .. ScriptEvents
    /\ flush \in BOOLEAN /\ exit \in BOOLEAN /\ hasFlush \in BOOLEAN
    /\ tpc \in {"flush", "flushed", "swap", "handle", "done"}
    /\ cpc \in {"idle", "acks", "joining", "joined"}
    /\ retval \in 0 .. ScriptEvents
    /\ given \in 0 .. ScriptEvents /\ returned \in 0 .. ScriptEvents
    /\ stack \subseteq ScriptEvent /\ settled \subseteq ScriptEvent

-----------------------------------------------------------------------------
(***************************************************************************)
(* The caller.                                                             *)
(***************************************************************************)

(* write(): under _exposed_events_m the event joins the exposed queue, and *)
(* the acknowledgements are read ...                                       *)
Write ==
    /\ cpc = "idle" /\ given < ScriptEvents /\ given - returned < QueueSize
    /\ given' = given + 1
    /\ exposed' = Append(exposed, given + 1)
    /\ retval' = acksCount
    /\ cpc' = "acks"
    /\ UNCHANGED <<acksCount, flush, exit, hasFlush, returned, threadVars,
                   scriptVars>>

(* flush(): the failover calls it when the muxer has nothing for it. *)
Flush ==
    /\ cpc = "idle" /\ (given = ScriptEvents \/ given - returned >= QueueSize)
    /\ flush' = TRUE
    /\ retval' = acksCount
    /\ cpc' = "acks"
    /\ UNCHANGED <<exposed, acksCount, exit, hasFlush, given, returned,
                   threadVars, scriptVars>>

(* Mutant: the counter is reset instead of reduced. *)
TakeAcksReset ==
    /\ cpc = "acks"
    /\ acksCount' = 0
    /\ returned' = returned + retval
    /\ retval' = 0
    /\ cpc' = "idle"
    /\ UNCHANGED <<exposed, flush, exit, hasFlush, given, threadVars,
                   scriptVars>>

(* ... and taken off in a second step. *)
TakeAcks ==
    /\ cpc = "acks"
    /\ acksCount' = acksCount - retval
    /\ returned' = returned + retval
    /\ retval' = 0
    /\ cpc' = "idle"
    /\ UNCHANGED <<exposed, flush, exit, hasFlush, given, threadVars,
                   scriptVars>>

(* The destructor: what _acks_count still holds is lost. *)
Destruct ==
    /\ cpc = "idle"
    /\ exit' = TRUE
    /\ cpc' = "joining"
    /\ UNCHANGED <<exposed, acksCount, flush, hasFlush, retval, given,
                   returned, threadVars, scriptVars>>

Join ==
    /\ cpc = "joining" /\ tpc = "done"
    /\ cpc' = "joined"
    /\ UNCHANGED <<exposed, acksCount, flush, exit, hasFlush, retval, given,
                   returned, threadVars, scriptVars>>

-----------------------------------------------------------------------------
(***************************************************************************)
(* The thread.                                                             *)
(***************************************************************************)

(* luabinding::flush and luabinding::write give every event counted since  *)
(* the last time back, the rejected ones included, when the script says    *)
(* that it is done.                                                        *)
Acknowledge(n, done) ==
    /\ acksCount' = IF done THEN acksCount + n ELSE acksCount
    /\ total' = IF done THEN 0 ELSE n

CallFlush(done) ==
    /\ tpc = "flush" /\ hasFlush /\ flush
    /\ settled' = IF done THEN settled \cup stack ELSE settled
    /\ stack' = IF done THEN {} ELSE stack
    /\ Acknowledge(total, done)
    /\ tpc' = "flushed"
    /\ UNCHANGED <<exposed, events, flush, exit, hasFlush, callerVars>>

FlushDone ==
    /\ tpc = "flushed"
    /\ flush' = FALSE
    /\ tpc' = "swap"
    /\ UNCHANGED <<exposed, events, total, acksCount, exit, hasFlush,
                   callerVars, scriptVars>>

NoFlush ==
    /\ tpc = "flush" /\ ~ (hasFlush /\ flush)
    /\ tpc' = "swap"
    /\ UNCHANGED <<exposed, events, total, acksCount, flush, exit, hasFlush,
                   callerVars, scriptVars>>

Swap ==
    /\ tpc = "swap"
    /\ tpc' = "handle"
    /\ IF events = <<>>
       THEN exposed' = <<>> /\ events' = exposed
       ELSE UNCHANGED <<exposed, events>>
    /\ UNCHANGED <<total, acksCount, flush, exit, hasFlush, callerVars,
                   scriptVars>>

(* luabinding::write: the filter refuses the event, filter or write fails, *)
(* the script keeps the event, or it sends all it has.                     *)
Handle(what) ==
    /\ tpc = "handle" /\ events # <<>>
    /\ LET e == Head(events)
       IN /\ stack' = CASE what = "send" -> {}
                        [] what = "keep" -> stack \cup {e}
                        [] OTHER -> stack
          /\ settled' = CASE what = "send" -> settled \cup stack \cup {e}
                          [] what = "keep" -> settled
                          [] OTHER -> settled \cup {e}
    /\ events' = Tail(events)
    /\ Acknowledge(total + 1, what = "send")
    /\ tpc' = "flush"
    /\ UNCHANGED <<exposed, flush, exit, hasFlush, callerVars>>

(* The thread leaves only when the swap brought nothing. *)
Leave ==
    /\ tpc = "handle" /\ events = <<>> /\ exit
    /\ tpc' = "done"
    /\ UNCHANGED <<exposed, events, total, acksCount, flush, exit, hasFlush,
                   callerVars, scriptVars>>

Wait ==
    /\ tpc = "handle" /\ events = <<>> /\ ~ exit
    /\ tpc' = "flush"
    /\ UNCHANGED <<exposed, events, total, acksCount, flush, exit, hasFlush,
                   callerVars, scriptVars>>

-----------------------------------------------------------------------------
LuaInit ==
    /\ exposed = <<>> /\ events = <<>>
    /\ total = 0 /\ acksCount = 0
    /\ flush = FALSE /\ exit = FALSE
    /\ tpc = "flush" /\ cpc = "idle" /\ retval = 0
    /\ given = 0 /\ returned = 0
    /\ hasFlush \in BOOLEAN
    /\ stack = {} /\ settled = {}

Outcome == {"refuse", "keep", "send"}

Thread ==
    \/ \E done \in BOOLEAN : CallFlush(done)
    \/ FlushDone \/ NoFlush \/ Swap
    \/ \E what \in Outcome : Handle(what)
    \/ Leave \/ Wait

LuaNext == Write \/ Flush \/ TakeAcks \/ Destruct \/ Join \/ Thread

(***************************************************************************)
(* The thread runs; the failover keeps calling write or flush; a script    *)
(* whose flush() is called again and again can send what it holds in the   *)
(* end.  Nobody has to destroy the stream.                                 *)
(***************************************************************************)
LuaSpec ==
    /\ LuaInit /\ [][LuaNext]_luaVars
    /\ WF_luaVars(Thread) /\ WF_luaVars(Write) /\ WF_luaVars(Flush)
    /\ WF_luaVars(TakeAcks) /\ WF_luaVars(Join)
    /\ SF_luaVars(CallFlush(TRUE))

-----------------------------------------------------------------------------
(***************************************************************************)
(* Properties                                                              *)
(***************************************************************************)

(* The acknowledgements given to the muxer, waiting in _acks_count and     *)
(* still with the script add up to the events handed to the script, though *)
(* _acks_count is read and reduced in two steps; and the events            *)
(* acknowledged are the first ones, so each of them must have been sent,   *)
(* refused by the filter or have made the script fail.  When the           *)
(* destructor returns the thread has handed every event it took to the     *)
(* script; an event written after its last swap stays behind, but it is    *)
(* not acknowledged either and the muxer will hand it out again.           *)
LuaAcks ==
    /\ LuaTypeOK
    /\ cpc = "joined" => events = <<>>
    /\ returned + acksCount + total = handled
    /\ \A e \in 1 .. returned + acksCount : e \in settled

(* The destructor returns.                                                 *)
LuaEnds == []<>(~exit \/ cpc = "joined")

(* A script that defines flush() does not lock up with a full muxer: every *)
(* event is acknowledged in the end unless the stream is destroyed.        *)
LuaUnlocks == []<>(hasFlush => returned = given \/ exit)

(* The destructor returns, and no script with a flush() is locked up.      *)
LuaLive == LuaEnds /\ LuaUnlocks

=============================================================================
