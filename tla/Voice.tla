-------------------------------- MODULE Voice ------------------------------
(***************************************************************************)
(* What the Discord client hears of one user of a voice channel, and what  *)
(* it says: VoiceManager with its AudioMonitors.  Discord tells when the   *)
(* user starts and stops speaking; the audio in between comes in chunks    *)
(* through a stream, from which every decoder made for the user reads.     *)
(* The stream holds what nobody has read, and a decoder is only made for a *)
(* user whose stream holds something.                                      *)
(***************************************************************************)
EXTENDS SequencesExt, Naturals

CONSTANTS
    MaxSize,    \* chunks an AudioMonitor buffers
    MaxSaid,    \* bound: chunks of audio
    MaxSpoken,  \* bound: times the user speaks
    MaxRejoins, \* bound: times the connection or the channel changes
    MaxPlayers  \* bound: answers that are played

VARIABLES
    alive,      \* FALSE once the process hangs
    speaking,   \* whether the user speaks, as Discord tells
    spoken,     \* the number of the last chunk the user said each time
    fetching,   \* handlers of "start" that wait for the member
    late,       \* whether the user stopped before such a handler was done
    subscribed, \* whether the stream exists
    unread,     \* the chunks it holds
    monitors,   \* what each AudioMonitor of the user holds, oldest first
    buffers,    \* userStates.get(userId).buffers, as one
    timers,     \* monitors whose debounced processTranscription is due
    jobs,       \* audio at the transcription service
    messages,   \* [text, at] of every transcription that was handled
    playing,    \* audio players that play
    player,     \* this.activeAudioPlayer, by its number, or 0
    rejoins

VoiceAssumption ==
    /\ MaxSize \in Nat /\ MaxSaid \in Nat /\ MaxSpoken \in Nat
    /\ MaxRejoins \in Nat /\ MaxPlayers \in Nat

hears == <<subscribed, unread, monitors>>
waits == <<buffers, timers, jobs>>
vars == <<alive, speaking, spoken, fetching, late, hears, waits, messages,
          playing, player, rejoins>>

Said == IF spoken = <<>> THEN 0 ELSE Last(spoken)
SaidBefore(i) == IF i = 1 THEN 0 ELSE spoken[i - 1]

Init ==
    /\ alive = TRUE
    /\ speaking = FALSE /\ spoken = <<>>
    /\ fetching = 0 /\ late = FALSE
    /\ subscribed = FALSE /\ unread = <<>> /\ monitors = <<>>
    /\ buffers = <<>> /\ timers = {} /\ jobs = <<>>
    /\ messages = <<>>
    /\ playing = {} /\ player = 0
    /\ rejoins = 0

----------------------------------------------------------------------------
(* AudioMonitor.reset. *)
(* Mutant: it only unsets the flag. *)
Reset_Flag(held) == held
Reset(held) == <<>>

(* monitorMember, then "speakingStarted" on the stream of the user, which  *)
(* is that of the last decoder.  What the stream holds reaches the decoder *)
(* after the handler.                                                      *)
Begin ==
    LET all == IF unread = <<>> THEN monitors ELSE Append(monitors, <<>>)
    IN  /\ subscribed' = TRUE
        /\ monitors' = IF all = <<>> THEN all ELSE [all EXCEPT ![Len(all)] = Reset(@)]
        /\ UNCHANGED unread

SpeakingStarts ==
    /\ alive /\ ~speaking
    /\ Len(spoken) < MaxSpoken
    /\ speaking' = TRUE
    /\ spoken' = Append(spoken, Said)
    /\ \/ Begin /\ UNCHANGED fetching
       \/ fetching' = fetching + 1 /\ UNCHANGED hears
    /\ UNCHANGED <<alive, late, waits, messages, playing, player, rejoins>>

(* A member who is not cached is fetched first, which may fail. *)
MemberFetched ==
    /\ alive /\ fetching > 0
    /\ fetching' = fetching - 1
    /\ \/ Begin /\ UNCHANGED late
       \/ late' = TRUE /\ UNCHANGED hears
    /\ UNCHANGED <<alive, speaking, spoken, waits, messages, playing, player, rejoins>>

(* The user changes to the channel of the agent: nothing is heard of the   *)
(* one before, and the stream is there before the first word.              *)
MemberJoins ==
    /\ alive /\ rejoins < MaxRejoins
    /\ rejoins' = rejoins + 1
    /\ subscribed' = TRUE
    /\ monitors' = IF unread = <<>> THEN monitors ELSE Append(monitors, <<>>)
    /\ UNCHANGED <<alive, speaking, spoken, fetching, late, unread, waits, messages,
                   playing, player>>

(* The voice of the user comes in; it may be lost before the first start. *)
PacketArrives ==
    /\ alive /\ speaking
    /\ Said < MaxSaid
    /\ spoken' = [spoken EXCEPT ![Len(spoken)] = Said + 1]
    /\ unread' = IF subscribed THEN Append(unread, Said + 1) ELSE unread
    /\ UNCHANGED <<alive, speaking, fetching, late, subscribed, monitors, waits,
                   messages, playing, player, rejoins>>

(* Every decoder passes a chunk to its monitor.  The loop that makes room  *)
(* compares a size it computed once, and does not end.                     *)
Flow ==
    /\ alive /\ unread # <<>> /\ monitors # <<>>
    /\ unread' = Tail(unread)
    /\ monitors' = [i \in DOMAIN monitors |-> Append(monitors[i], Head(unread))]
    /\ alive' = \A i \in DOMAIN monitors : Len(monitors'[i]) <= MaxSize
    /\ UNCHANGED <<speaking, spoken, fetching, late, subscribed, waits, messages,
                   playing, player, rejoins>>

(* Mutant: while something is transcribed, no timer is started. *)
Due_Busy(i) == IF jobs = <<>> THEN timers \cup {i} ELSE timers
Due(i) == timers \cup {i}

(* "speakingStopped" on the stream of the user: what its monitor holds is  *)
(* buffered, and stays in the monitor.                                     *)
SpeakingStops ==
    /\ alive /\ speaking /\ Said > SaidBefore(Len(spoken))
    /\ speaking' = FALSE
    /\ late' = (late \/ fetching > 0)
    /\ IF monitors # <<>> /\ Last(monitors) # <<>>
       THEN /\ buffers' = buffers \o Last(monitors)
            /\ timers' = Due(Len(monitors))
       ELSE UNCHANGED <<buffers, timers>>
    /\ UNCHANGED <<alive, spoken, fetching, hears, jobs, messages, playing, player, rejoins>>

(* joinChannel replaces the connection, or it is left and joined again:    *)
(* the stream is destroyed, and all that reads from it.                    *)
Rejoin ==
    /\ alive /\ rejoins < MaxRejoins
    /\ rejoins' = rejoins + 1
    /\ speaking' = FALSE
    /\ subscribed' = FALSE /\ unread' = <<>> /\ monitors' = <<>>
    /\ UNCHANGED <<alive, spoken, fetching, late, waits, messages, playing, player>>

----------------------------------------------------------------------------
(* The first half of processTranscription. *)
DebounceFires(i) ==
    /\ alive /\ i \in timers
    /\ timers' = timers \ {i}
    /\ jobs' = IF buffers = <<>> THEN jobs ELSE Append(jobs, buffers)
    /\ buffers' = <<>>
    /\ UNCHANGED <<alive, speaking, spoken, fetching, late, hears, messages, playing,
                   player, rejoins>>

(* cleanupAudioPlayer(this.activeAudioPlayer). *)
(* Mutant: the player is forgotten, not stopped. *)
Silenced_Not == playing
Silenced == playing \ {player}

(* The service answers in order: nothing, or a text that is handled.       *)
Transcribed ==
    /\ alive /\ jobs # <<>>
    /\ jobs' = Tail(jobs)
    /\ \/ UNCHANGED <<messages, playing, player>>
       \/ /\ messages' = Append(messages, [text |-> Head(jobs), at |-> "store"])
          /\ playing' = Silenced
          /\ player' = 0
    /\ UNCHANGED <<alive, speaking, spoken, fetching, late, hears, buffers, timers, rejoins>>

(* handleUserMessage: a command or a text to ignore ends it, like an       *)
(* error; so may the model, asked whether to respond.                      *)
Decide(m) ==
    /\ alive /\ messages[m].at = "store"
    /\ \E s \in {"done", "speak"} : messages' = [messages EXCEPT ![m].at = s]
    /\ UNCHANGED <<alive, speaking, spoken, fetching, late, hears, waits, playing, player, rejoins>>

(* The callback: nothing to say, no connection of the user, or the speech  *)
(* is played by a new player.  Then the action of the answer may call it   *)
(* once more, if the model added a field that the check after it wants.    *)
Play(m) ==
    /\ alive /\ messages[m].at \in {"speak", "again"}
    /\ \/ UNCHANGED <<playing, player>>
       \/ /\ monitors # <<>> /\ playing \cup {player} # 1 .. MaxPlayers
          /\ \E p \in 1 .. MaxPlayers :
               /\ p \notin playing \cup {player}
               /\ player' = p
               /\ playing' = Silenced \cup {p}
    /\ \E s \in {"done", "again"} :
         /\ s = "again" => messages[m].at = "speak"
         /\ messages' = [messages EXCEPT ![m].at = s]
    /\ UNCHANGED <<alive, speaking, spoken, fetching, late, hears, waits, rejoins>>

PlayerEnds ==
    /\ alive
    /\ \E p \in playing : playing' = playing \ {p}
    /\ UNCHANGED <<alive, speaking, spoken, fetching, late, hears, waits, messages, player, rejoins>>

(* The user is loud enough while the agent speaks. *)
Interrupt ==
    /\ alive /\ speaking /\ monitors # <<>> /\ player # 0
    /\ playing' = Silenced
    /\ player' = 0
    /\ UNCHANGED <<alive, speaking, spoken, fetching, late, hears, waits, messages, rejoins>>

Continue ==
    \/ MemberFetched \/ Flow \/ Transcribed \/ PlayerEnds
    \/ \E i \in timers : DebounceFires(i)
    \/ \E m \in DOMAIN messages : Decide(m) \/ Play(m)

Next == SpeakingStarts \/ PacketArrives \/ SpeakingStops \/ Rejoin \/ MemberJoins \/ Interrupt \/ Continue

(* What was started comes to an end; nobody need speak. *)
Spec == Init /\ [][Next]_vars /\ WF_vars(Continue)

----------------------------------------------------------------------------
(* Types of the client's fields. *)
TypeOK ==
    /\ alive \in BOOLEAN /\ speaking \in BOOLEAN /\ late \in BOOLEAN
    /\ fetching \in 0 .. MaxSpoken
    /\ timers \subseteq DOMAIN monitors \cup Nat
    /\ \A m \in DOMAIN messages : messages[m].at \in {"store", "speak", "again", "done"}
    /\ playing \subseteq 1 .. MaxPlayers /\ player \in 0 .. MaxPlayers

(* Everything that was handed over, in the order of its handling. *)
Texts == [m \in DOMAIN messages |-> messages[m].text]
HandedOver == Texts \o jobs \o <<buffers>>

InOrder(parts) ==
    \A i, j \in DOMAIN parts : \A k \in DOMAIN parts[i], l \in DOMAIN parts[j] :
        i < j \/ (i = j /\ k < l) => parts[i][k] < parts[j][l]

(* What the user said is handled in order, and nothing twice, however many *)
(* decoders were made and whatever is transcribed at the same time, unless *)
(* the user stopped before the member was fetched: then what the monitor   *)
(* holds from the time before is handed over once more.                    *)
HeardInOrder == ~late => InOrder(HandedOver)

(* The process only hangs when the user spoke twice in a row for longer    *)
(* than a monitor can hold, while the member is fetched, or when a monitor *)
(* was orphaned: still fed, but not told any more when the user starts.    *)
HangsOnLongSpeech ==
    alive \/ late \/ fetching > 0 \/ Len(monitors) > 1
    \/ \E i, j \in DOMAIN spoken : j \in {i, i + 1} /\ spoken[j] - SaidBefore(i) > MaxSize

(* The agent speaks with one voice, which what the user says can stop. *)
OneVoice == playing \subseteq {player}

(* What was buffered is transcribed, also when it was buffered during      *)
(* another transcription.                                                  *)
BuffersAreTranscribed == buffers # <<>> ~> (buffers = <<>> \/ ~alive)

============================================================================
