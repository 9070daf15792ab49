--------------------------- MODULE VoiceChannels ---------------------------
(***************************************************************************)
(* Joining and leaving the voice channels of one guild: VoiceManager's     *)
(* joinChannel and leaveChannel, and the listener that waits when Discord  *)
(* drops a connection.  @discordjs/voice tracks one connection per guild,  *)
(* and throws when one is destroyed twice.                                 *)
(***************************************************************************)
EXTENDS Naturals, Sequences

CONSTANTS
    Channels,
    MaxConnections, \* bound: connections ever made
    MaxDrops        \* bound: times Discord drops one

VoiceChannelsAssumption == MaxConnections \in Nat /\ MaxDrops \in Nat

VARIABLES
    running, \* FALSE once an unhandled rejection ended the process
    made,    \* connections made so far, numbered from 1
    status,  \* status[c]: "up" (signalling to ready), "down" or "destroyed"
    goal,    \* goal[c]: the channel c was made for
    tracked, \* getVoiceConnection(guild), or 0
    joining, \* joining[c]: how far joinChannel is that made c
    map,     \* this.connections.get(channel.id), or 0
    waiting, \* connections whose listener waits for them to come back
    drops

vars == <<running, made, status, goal, tracked, joining, map, waiting, drops>>

Made == 1 .. made

Init ==
    /\ running = TRUE
    /\ made = 0 /\ status = <<>> /\ goal = <<>> /\ joining = <<>>
    /\ tracked = 0
    /\ map = [ch \in Channels |-> 0]
    /\ waiting = {}
    /\ drops = 0

(* The listener is there once joinChannel got past its first wait. *)
Listening(c) == joining[c] \in {"deafened", "joined"}

Forget(ch) == [map EXCEPT ![ch] = 0]

(* VoiceConnection.destroy and what the listener does of it. *)
Destroyed(c) == [status EXCEPT ![c] = "destroyed"]
Unlisted(c) == IF Listening(c) THEN Forget(goal[c]) ELSE map

(* The end of joinChannel: setDeaf and setMute come before it is heard who *)
(* speaks, if the agent may deafen.                                        *)
Entered == {"deafened", "joined"}

(* joinChannel, of scanGuild or of a command, up to its first wait.  An    *)
(* adapter that cannot send leaves the new connection down.                *)
Join(ch) ==
    LET c == made + 1
        left == IF tracked = 0 THEN status ELSE Destroyed(tracked)
        rest == IF tracked = 0 THEN map ELSE Unlisted(tracked)
    IN  /\ running /\ made < MaxConnections
        /\ made' = c
        /\ tracked' = c
        /\ goal' = Append(goal, ch)
        /\ \/ /\ status' = Append(left, "up")
              /\ \E place \in Entered : joining' = Append(joining, place)
              /\ map' = [rest EXCEPT ![ch] = c]
           \/ /\ status' = Append(left, "down")
              /\ joining' = Append(joining, "connecting")
              /\ map' = rest
        /\ UNCHANGED <<running, waiting, drops>>

(* The first wait is over: the connection is there, *)
Connected(c) ==
    /\ running /\ joining[c] = "connecting" /\ status[c] = "down"
    /\ status' = [status EXCEPT ![c] = "up"]
    /\ \E place \in Entered : joining' = [joining EXCEPT ![c] = place]
    /\ map' = [map EXCEPT ![goal[c]] = c]
    /\ UNCHANGED <<running, made, goal, tracked, waiting, drops>>

(* or 20 s went by.  Destroying a connection that another call destroyed   *)
(* throws, and the caller reports it; its entry is not looked at.          *)
(* Mutant: a connection that is gone needs no destroying.                  *)
GiveUp_Quietly(c) ==
    IF status[c] = "destroyed" THEN map' = Forget(goal[c]) /\ UNCHANGED <<status, tracked>>
    ELSE status' = Destroyed(c) /\ tracked' = 0 /\ map' = Forget(goal[c])
GiveUp(c) ==
    IF status[c] = "destroyed" THEN UNCHANGED <<status, tracked, map>>
    ELSE status' = Destroyed(c) /\ tracked' = 0 /\ map' = Forget(goal[c])

ConnectTimesOut(c) ==
    /\ running /\ joining[c] = "connecting"
    /\ GiveUp(c)
    /\ joining' = [joining EXCEPT ![c] = "failed"]
    /\ UNCHANGED <<running, made, goal, waiting, drops>>

Undeafened(c) ==
    /\ running /\ joining[c] = "deafened"
    /\ joining' = [joining EXCEPT ![c] = "joined"]
    /\ UNCHANGED <<running, made, status, goal, tracked, map, waiting, drops>>

(* The leavechannel command, the LEAVE_VOICE action, or leaveChannel. *)
Leave ==
    /\ running /\ tracked # 0
    /\ status' = Destroyed(tracked)
    /\ map' = Unlisted(tracked)
    /\ tracked' = 0
    /\ UNCHANGED <<running, made, goal, joining, waiting, drops>>

Drop(c) ==
    /\ running /\ status[c] = "up" /\ drops < MaxDrops
    /\ drops' = drops + 1
    /\ status' = [status EXCEPT ![c] = "down"]
    /\ waiting' = waiting \cup {c}
    /\ UNCHANGED <<running, made, goal, tracked, joining, map>>

(* It reconnects, or was moved: the wait of the listener ends. *)
Return(c) ==
    /\ running /\ c \in waiting /\ status[c] = "down"
    /\ status' = [status EXCEPT ![c] = "up"]
    /\ waiting' = waiting \ {c}
    /\ map' = IF map[goal[c]] = 0 THEN [map EXCEPT ![goal[c]] = c] ELSE map
    /\ UNCHANGED <<running, made, goal, tracked, joining, drops>>

(* The listener waited 5 s in vain.  Nobody handles its rejection.         *)
Confirm(c) ==
    IF status[c] = "destroyed" THEN running' = FALSE /\ UNCHANGED <<status, tracked, map>>
    ELSE GiveUp(c) /\ UNCHANGED running

WaitTimesOut(c) ==
    /\ running /\ c \in waiting
    /\ Confirm(c)
    /\ waiting' = waiting \ {c}
    /\ UNCHANGED <<made, goal, joining, drops>>

Next ==
    \/ \E ch \in Channels : Join(ch)
    \/ Leave
    \/ \E c \in Made :
           \/ Connected(c) \/ ConnectTimesOut(c) \/ Undeafened(c)
           \/ Drop(c) \/ Return(c) \/ WaitTimesOut(c)

Spec == Init /\ [][Next]_vars
----------------------------------------------------------------------------
(* Types of the connections and of the maps over them. *)
TypeOK ==
    /\ running \in BOOLEAN /\ made \in 0 .. MaxConnections /\ drops \in 0 .. MaxDrops
    /\ status \in [Made -> {"up", "down", "destroyed"}]
    /\ goal \in [Made -> Channels]
    /\ joining \in [Made -> {"connecting", "deafened", "joined", "failed"}]
    /\ tracked \in 0 .. made /\ map \in [Channels -> 0 .. made] /\ waiting \subseteq Made

(* joinChannel's map and the tracked connection agree, whichever calls,    *)
(* drops and timeouts overlap: the map holds no destroyed connection, and  *)
(* the one that is tracked is found under its channel.  A late timeout of  *)
(* a connection that was replaced does not take the entry of the new one.  *)
MapFollowsConnection ==
    /\ \A ch \in Channels : map[ch] # 0 =>
           status[map[ch]] # "destroyed" /\ goal[map[ch]] = ch
    /\ tracked # 0 /\ Listening(tracked) => map[goal[tracked]] = tracked
    /\ \A c \in Made : status[c] # "destroyed" => c = tracked

(* Calls of joinChannel that overlap, as those of onReady and guildCreate  *)
(* may, do not end the process; only what destroys a connection while its  *)
(* listener waits for it after a drop does.                                *)
JoinsMayOverlap == running \/ \E c \in Made : drops > 0 /\ status[c] = "destroyed"

============================================================================
