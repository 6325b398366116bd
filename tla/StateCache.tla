----------------------------- MODULE StateCache -----------------------------
(***************************************************************************)
(* The state cache of a discordgo Session (state.go): guilds, channels and *)
(* members, each in a slice and in a map by id, and the messages of each   *)
(* channel.  The loop is the goroutine that handles the gateway's events   *)
(* (OnInterface); the program's goroutines call the same methods.          *)
(*                                                                         *)
(* Most methods look an object up under the read lock, give the lock back  *)
(* and change the object under the write lock: these are two steps, and    *)
(* what was looked up may be out of the cache by then ("gone").  A slice   *)
(* is the set of the ids in it; an object is its place in the cache, and   *)
(* its fields are kept as far as a method looks at them.                   *)
(*                                                                         *)
(* The gateway is what the events come from: what is true of a guild, and  *)
(* whether the client hears of it.  An event changes the truth and is      *)
(* handled at once when the loop is idle, since the loop alone orders      *)
(* events and looks at nothing else of the gateway.                        *)
(***************************************************************************)
EXTENDS Integers, Sequences, FiniteSets

CONSTANTS
    Guild, User, Text, Thread, Private, Message,
    Item,              \* of the lists that have no map (Roles, Emojis, Presences,
                       \* VoiceStates): one list stands for any of them
    Home,              \* the guild of a text channel or thread
    Parent,            \* the channel of a thread
    In,                \* the channel of a message
    MaxMessageCount,   \* the State fields MaxMessageCount and Track...
    Track,
    Program,           \* goroutines of the program
    ProgramOps,        \* the methods they call
    MaxCalls,          \* bound: how many calls they make
    MaxEvents,         \* bound: how much happens at the gateway
    loop,              \* the goroutine that handles events
    None

Channel == Text \cup Thread \cup Private
Proc == Program \cup {loop}
Tracked == {"members", "channels", "threads", "threadMembers", "items"}

ASSUME ConstantsAssumption ==
    /\ Home \in [Text \cup Thread -> Guild]
    /\ Parent \in [Thread -> Text]
    /\ In \in [Message -> Channel]
    /\ MaxMessageCount \in Nat \ {0}
    /\ Track \subseteq Tracked
    /\ loop \notin Program
    /\ MaxCalls \in Nat /\ MaxEvents \in Nat
    /\ Text \cap Thread = {} /\ Text \cap Private = {} /\ Thread \cap Private = {}
    /\ Guild \cap Channel = {}
    /\ None \notin Guild \cup Channel
    /\ IsFiniteSet(User)

VARIABLES
    guildMap,     \* s.guildMap: the guild or None
    listed,       \* s.Guilds
    memberMap,    \* s.memberMap: the users in it, or None
    channelMap,   \* s.channelMap: the channel or None
    private,      \* s.PrivateChannels
    leftOver,     \* guilds and channels in a map that are in no list, since the
                  \* list they were in was replaced or its guild removed
    todo,         \* of each goroutine: the calls it has still to make
    looked,       \* of its first call: "no", or whether what it looked up is
                  \* still in the cache, "live" or "gone"
    oldThreads,   \* of a guild that is gone: its threads
    truth,        \* the guilds as the gateway knows them; the members are
                  \* those besides the bot
    joined,       \* the guilds the bot is in
    messages,     \* the messages of each channel there, the oldest first
    used,         \* ids of messages and channels that were given, and of
                  \* threads that were deleted
    told,         \* the members of each guild whom an event named
    heard,        \* guilds whose events the client gets
    online,       \* there is a session
    calls,        \* calls the program has begun
    events,       \* what has happened at the gateway
    torn          \* guilds a call changed through an object that was gone

cache == <<guildMap, listed, memberMap, channelMap, private, leftOver>>
gateway == <<truth, joined, messages, used, heard, online, told>>
vars == <<cache, todo, looked, oldThreads, gateway, calls, events, torn>>

GuildRecord == [members: SUBSET User, count: Int, channels: SUBSET Text,
                threads: SUBSET Thread, items: SUBSET Item]
ChannelRecord == [messages: Seq(Message), members: SUBSET User,
                  archived: BOOLEAN, mine: BOOLEAN]

\* None is neither an object nor one of the lists a guild comes with.
ASSUME NoneAssumption ==
    /\ None \notin GuildRecord /\ None \notin ChannelRecord
    /\ \A S \in (SUBSET User) \cup (SUBSET Text) \cup (SUBSET Thread) \cup (SUBSET Item) : S # None

TypeOK ==
    /\ guildMap \in [Guild -> GuildRecord \cup {None}]
    /\ listed \in SUBSET Guild
    /\ memberMap \in [Guild -> (SUBSET User) \cup {None}]
    /\ channelMap \in [Channel -> ChannelRecord \cup {None}]
    /\ private \in SUBSET Private
    /\ looked \in [Proc -> {"no", "live", "gone"}]
    /\ \A p \in Proc : looked[p] # "no" => todo[p] # <<>>
    /\ oldThreads \in [Proc -> SUBSET Thread]
    /\ leftOver \in SUBSET (Guild \cup Text \cup Thread)
    /\ heard \in SUBSET joined
    /\ told \in [Guild -> SUBSET User]
    /\ online \in BOOLEAN
    /\ calls \in 0..MaxCalls
    /\ events \in 0..MaxEvents
    /\ torn \in SUBSET Guild

\* Guild, Channel and Member of State, under the lock.
HasGuild(g) == guildMap[g] # None
HasChannel(c) == channelMap[c] # None
HasMember(g, u) == memberMap[g] # None /\ u \in memberMap[g]

NewGuild == [members |-> {}, count |-> 0, channels |-> {}, threads |-> {}, items |-> {}]
NewChannel == [messages |-> <<>>, members |-> {}, archived |-> FALSE, mine |-> FALSE]

Init ==
    /\ guildMap = [g \in Guild |-> None]
    /\ listed = {}
    /\ memberMap = [g \in Guild |-> None]
    /\ channelMap = [c \in Channel |-> None]
    /\ private = {}
    /\ leftOver = {}
    /\ todo = [p \in Proc |-> <<>>]
    /\ looked = [p \in Proc |-> "no"]
    /\ oldThreads = [p \in Proc |-> {}]
    /\ used \in SUBSET Text
    /\ truth = [g \in Guild |-> [NewGuild EXCEPT !.channels = {c \in used : Home[c] = g}]]
    /\ joined \in SUBSET Guild
    /\ messages = [c \in Channel |-> <<>>]
    /\ heard = {}
    /\ told = [g \in Guild |-> {}]
    /\ online = FALSE
    /\ calls = 0
    /\ events = 0
    /\ torn = {}

-----------------------------------------------------------------------------
(* Calls: what a goroutine has to do next, and how it gets on with it.      *)

NextCall(p, op) == todo[p] # <<>> /\ Head(todo[p]).op = op
At(p) == Head(todo[p]).at
Arg(p) == Head(todo[p]).arg

\* A mutant: the lookup of a call serves the next one too.
ReturnLookedUp(p) == todo' = [todo EXCEPT ![p] = Tail(@)] /\ UNCHANGED <<looked, oldThreads>>

\* p returns from its first call.
Return(p) ==
    /\ todo' = [todo EXCEPT ![p] = Tail(@)]
    /\ looked' = [looked EXCEPT ![p] = "no"]
    /\ oldThreads' = [oldThreads EXCEPT ![p] = {}]

\* The same, when the objects at the places in S leave the cache: what other
\* goroutines have looked up there is gone.
ReturnDetaching(p, S) ==
    LET holds(q) == q # p /\ looked[q] = "live" /\ At(q) \in S IN
    /\ todo' = [todo EXCEPT ![p] = Tail(@)]
    /\ looked' = [q \in Proc |-> IF q = p THEN "no"
                                 ELSE IF holds(q) THEN "gone" ELSE looked[q]]
    /\ oldThreads' = [q \in Proc |->
            IF q = p THEN {}
            ELSE IF holds(q) /\ At(q) \in Guild /\ guildMap[At(q)] # None
                 THEN guildMap[At(q)].threads
            ELSE oldThreads[q]]

GuildOps == {"GuildRemove", "MemberCount", "MemberRemove", "RoleAdd", "RoleRemove",
             "EmojiAdd", "PresenceRemove", "voiceStateUpdate", "SetEmojis", "ChannelRemove",
             "ThreadListSync"}
ChannelOps == {"MessageAdd", "MessageRemove", "ThreadMembersUpdate", "ThreadMemberUpdate"}

\* Guild or Channel of State: the lookup at the beginning of a method.  A
\* method that finds nothing returns, OnInterface too when it changes a count.
\* ChannelRemove looks for the channel (its arg) and then for its guild, unless
\* it is a private one.
Look(p) ==
    /\ todo[p] # <<>> /\ looked[p] = "no"
    /\ Head(todo[p]).op \in GuildOps \cup ChannelOps
    /\ LET found == /\ Head(todo[p]).op = "ChannelRemove" => HasChannel(Arg(p))
                    /\ IF At(p) \in Guild THEN HasGuild(At(p))
                       ELSE IF At(p) \in Channel THEN HasChannel(At(p)) ELSE TRUE
       IN  IF found THEN looked' = [looked EXCEPT ![p] = "live"] /\ UNCHANGED todo
           ELSE /\ todo' = [todo EXCEPT ![p] =
                                IF Head(@).op = "MemberCount" THEN <<>> ELSE Tail(@)]
                /\ UNCHANGED looked
    /\ UNCHANGED <<cache, oldThreads, gateway, calls, events, torn>>

\* The second half of a method that found what it looked for.
Found(p, op) == NextCall(p, op) /\ looked[p] # "no"
Live(p) == looked[p] = "live"

\* A change of the guild p looked up, which shows only if it is in the cache.
ChangeGuild(p, rec) ==
    guildMap' = IF Live(p) THEN [guildMap EXCEPT ![At(p)] = rec] ELSE guildMap
ChangeChannel(p, rec) ==
    channelMap' = IF Live(p) THEN [channelMap EXCEPT ![At(p)] = rec] ELSE channelMap
Tear(p, g) == torn' = IF Live(p) \/ ~HasGuild(g) THEN torn ELSE torn \cup {g}

-----------------------------------------------------------------------------
(* Guilds *)

\* The guild that is given has new lists, or none (None) where the old stay.
Merge(new, old) ==
    [members  |-> IF new.members = None THEN old.members ELSE new.members,
     count    |-> IF new.count = 0 THEN old.count ELSE new.count,
     channels |-> IF new.channels = None THEN old.channels ELSE new.channels,
     threads  |-> IF new.threads = None THEN old.threads ELSE new.threads,
     items    |-> IF new.items = None THEN old.items ELSE new.items]

\* A mutant: threads are not put into the map.
ChannelsOfNoThreads(new) == IF new.channels = None THEN {} ELSE new.channels

ChannelsOf(new) == (IF new.channels = None THEN {} ELSE new.channels)
                   \cup (IF new.threads = None THEN {} ELSE new.threads)

GuildAdd(p) ==
    /\ NextCall(p, "GuildAdd")
    /\ LET g == At(p)  new == Arg(p) IN
       /\ channelMap' = [c \in Channel |-> IF c \in ChannelsOf(new) THEN NewChannel
                                           ELSE channelMap[c]]
       /\ memberMap' = [memberMap EXCEPT ![g] =
                            IF new.members # None THEN new.members
                            ELSE IF @ = None THEN {} ELSE @]
       /\ guildMap' = [guildMap EXCEPT ![g] = Merge(new, IF @ = None THEN NewGuild ELSE @)]
       /\ listed' = IF HasGuild(g) THEN listed ELSE listed \cup {g}
       /\ leftOver' = (leftOver \ ChannelsOf(new)) \cup
                      {c \in Text \cup Thread : /\ Home[c] = g /\ HasChannel(c)
                                              /\ c \notin guildMap'[g].channels
                                              /\ c \notin guildMap'[g].threads}
       /\ ReturnDetaching(p, ChannelsOf(new))
    /\ UNCHANGED <<private, gateway, calls, events, torn>>

\* The maps of channels and members keep what they have of the guild.
GuildRemove(p) ==
    /\ Found(p, "GuildRemove")
    /\ guildMap' = [guildMap EXCEPT ![At(p)] = None]
    /\ listed' = listed \ {At(p)}
    /\ leftOver' = leftOver \ {At(p)}
    /\ ReturnDetaching(p, {At(p)})
    /\ UNCHANGED <<memberMap, channelMap, private, gateway, calls, events, torn>>

-----------------------------------------------------------------------------
(* Members, and the lists without a map *)

\* OnInterface adds 1 to MemberCount, or takes 1 away, without a lock.
MemberCount(p) ==
    /\ Found(p, "MemberCount")
    /\ ChangeGuild(p, [guildMap[At(p)] EXCEPT !.count = @ + Arg(p)])
    /\ Return(p)
    /\ UNCHANGED <<listed, leftOver, memberMap, channelMap, private, gateway, calls, events, torn>>

\* A mutant: the slice is forgotten.
WithMembersMapOnly(g, S, I) ==
    IF HasGuild(g) /\ memberMap[g] # None
    THEN /\ memberMap' = [memberMap EXCEPT ![g] = @ \cup S]
         /\ guildMap' = [guildMap EXCEPT ![g].items = @ \cup I]
    ELSE UNCHANGED <<memberMap, guildMap>>

\* memberAdd for the users in S: the slice gets those the map does not have.  Then
\* presenceAdd for I, unless memberAdd returned an error.
WithMembers(g, S, I) ==
    IF HasGuild(g) /\ memberMap[g] # None
    THEN /\ memberMap' = [memberMap EXCEPT ![g] = @ \cup S]
         /\ guildMap' = [guildMap EXCEPT ![g].members = @ \cup (S \ memberMap[g]),
                                         ![g].items = @ \cup I]
    ELSE UNCHANGED <<memberMap, guildMap>>

MemberAdd(p) ==
    /\ NextCall(p, "MemberAdd")
    /\ WithMembers(At(p), {Arg(p)}, {})
    /\ Return(p)
    /\ UNCHANGED <<listed, leftOver, channelMap, private, gateway, calls, events, torn>>

MemberRemove(p) ==
    /\ Found(p, "MemberRemove")
    /\ LET g == At(p)  u == Arg(p) IN
       IF HasMember(g, u)
       THEN /\ memberMap' = [memberMap EXCEPT ![g] = @ \ {u}]
            /\ ChangeGuild(p, [guildMap[g] EXCEPT !.members = @ \ {u}])
            /\ Tear(p, g)
       ELSE UNCHANGED <<memberMap, guildMap, torn>>
    /\ Return(p)
    /\ UNCHANGED <<listed, leftOver, channelMap, private, gateway, calls, events>>

\* A guild's list that has no map becomes items.
SetItems(p, op, items) ==
    /\ Found(p, op)
    /\ ChangeGuild(p, [guildMap[At(p)] EXCEPT !.items = items])
    /\ Return(p)
    /\ UNCHANGED <<listed, leftOver, memberMap, channelMap, private, gateway, calls, events, torn>>
Items(p) == guildMap[At(p)].items

RoleAdd(p) == SetItems(p, "RoleAdd", Items(p) \cup {Arg(p)})
RoleRemove(p) == SetItems(p, "RoleRemove", Items(p) \ {Arg(p)})
EmojiAdd(p) == SetItems(p, "EmojiAdd", Items(p) \cup {Arg(p)})
PresenceRemove(p) == SetItems(p, "PresenceRemove", Items(p) \ {Arg(p)})

\* With a channel or, of a user who left, without one.
voiceStateUpdate(p) ==
    SetItems(p, "voiceStateUpdate", IF Arg(p).joins THEN Items(p) \cup {Arg(p).item}
                                    ELSE Items(p) \ {Arg(p).item})

\* OnInterface, for GuildEmojisUpdate and GuildStickersUpdate.
SetEmojis(p) == SetItems(p, "SetEmojis", Arg(p))

\* presenceAdd, which looks the guild up under the same lock.
PresenceAdd(p) ==
    /\ NextCall(p, "PresenceAdd")
    /\ guildMap' = IF HasGuild(At(p))
                   THEN [guildMap EXCEPT ![At(p)].items = @ \cup {Arg(p)}] ELSE guildMap
    /\ Return(p)
    /\ UNCHANGED <<listed, leftOver, memberMap, channelMap, private, gateway, calls, events, torn>>

-----------------------------------------------------------------------------
(* Channels and threads *)

\* A channel the map knows is changed in place, wherever it is listed, and of
\* its fields here keeps the messages; a new one is listed in its guild or with
\* the private ones.
ChannelAdd(p) ==
    /\ NextCall(p, "ChannelAdd")
    /\ LET c == At(p)
           rec(old) == [NewChannel EXCEPT !.messages = old.messages, !.archived = Arg(p)]
       IN
       \/ /\ HasChannel(c)
          /\ channelMap' = [channelMap EXCEPT ![c] = rec(@)]
          /\ UNCHANGED <<guildMap, private>>
       \/ /\ ~HasChannel(c) /\ c \in Private
          /\ channelMap' = [channelMap EXCEPT ![c] = rec(NewChannel)]
          /\ private' = private \cup {c}
          /\ UNCHANGED guildMap
       \/ /\ ~HasChannel(c) /\ c \notin Private /\ HasGuild(Home[c])
          /\ channelMap' = [channelMap EXCEPT ![c] = rec(NewChannel)]
          /\ guildMap' = IF c \in Thread
                         THEN [guildMap EXCEPT ![Home[c]].threads = @ \cup {c}]
                         ELSE [guildMap EXCEPT ![Home[c]].channels = @ \cup {c}]
          /\ UNCHANGED private
       \/ /\ ~HasChannel(c) /\ c \notin Private /\ ~HasGuild(Home[c])
          /\ UNCHANGED <<channelMap, guildMap, private>>
    /\ Return(p)
    /\ UNCHANGED <<listed, leftOver, memberMap, gateway, calls, events, torn>>

ChannelRemove(p) ==
    /\ Found(p, "ChannelRemove")
    /\ LET c == Arg(p) IN
       /\ channelMap' = [channelMap EXCEPT ![c] = None]
       /\ IF c \in Private
          THEN private' = private \ {c} /\ UNCHANGED <<guildMap, torn>>
          ELSE /\ ChangeGuild(p, [guildMap[At(p)] EXCEPT
                                    !.channels = @ \ {c}, !.threads = @ \ {c}])
               /\ Tear(p, At(p))
               /\ UNCHANGED private
       /\ ReturnDetaching(p, {c})
    /\ UNCHANGED <<listed, leftOver, memberMap, gateway, calls, events>>

\* The threads kept are not archived and of a channel that is not synced; with
\* no channel ids (None) every thread is dropped.
ThreadListSync(p) ==
    /\ Found(p, "ThreadListSync")
    /\ LET g == At(p)
           tls == Arg(p)
           had == IF Live(p) THEN guildMap[g].threads ELSE oldThreads[p]
           kept == {t \in had : /\ channelMap[t] # None => ~channelMap[t].archived
                                /\ tls.ids # None /\ Parent[t] \notin tls.ids}
       IN
       /\ channelMap' = [c \in Channel |->
                IF c \in tls.threads THEN [NewChannel EXCEPT !.mine = c \in tls.mine]
                ELSE IF c \in had \ kept THEN None
                ELSE IF c \in tls.mine /\ channelMap[c] # None
                     THEN [channelMap[c] EXCEPT !.mine = TRUE]
                ELSE channelMap[c]]
       /\ ChangeGuild(p, [guildMap[g] EXCEPT !.threads = kept \cup tls.threads])
       /\ Tear(p, g)
       /\ ReturnDetaching(p, (had \ kept) \cup tls.threads)
    /\ UNCHANGED <<listed, leftOver, memberMap, private, gateway, calls, events>>

\* A removed user is compared with the thread's id (ThreadMember.ID) in place
\* of the user's, so that nobody is removed.  An added user comes with his Member
\* (named) and with a presence, or without; one user is added at a time, since an
\* error of memberAdd or presenceAdd ends the call.
ThreadMembersUpdate(p) ==
    /\ Found(p, "ThreadMembersUpdate")
    /\ LET tmu == Arg(p) IN
       /\ ChangeChannel(p, [channelMap[At(p)] EXCEPT !.members =
              {u \in @ : ~\E r \in tmu.removed : At(p) = r} \cup tmu.added])
       /\ WithMembers(Home[At(p)], tmu.named, tmu.presences)
    /\ Return(p)
    /\ UNCHANGED <<listed, leftOver, private, gateway, calls, events, torn>>

ThreadMemberUpdate(p) ==
    /\ Found(p, "ThreadMemberUpdate")
    /\ ChangeChannel(p, [channelMap[At(p)] EXCEPT !.mine = TRUE])
    /\ Return(p)
    /\ UNCHANGED <<guildMap, listed, leftOver, memberMap, private, gateway, calls, events, torn>>

-----------------------------------------------------------------------------
(* Messages *)

Contains(m, list) == \E i \in DOMAIN list : list[i] = m
Without(m, list) ==
    IF Contains(m, list)
    THEN LET i == CHOOSE i \in DOMAIN list : list[i] = m
         IN  SubSeq(list, 1, i - 1) \o SubSeq(list, i + 1, Len(list))
    ELSE list

\* A mutant: one more than the cache keeps.
NewestOneMore(list) ==
    IF Len(list) > MaxMessageCount + 1 THEN Tail(list) ELSE list

\* The newest of a list, as many as the cache keeps.
Newest(list) ==
    IF Len(list) > MaxMessageCount
    THEN SubSeq(list, Len(list) - MaxMessageCount + 1, Len(list)) ELSE list

MessageAdd(p) ==
    /\ Found(p, "MessageAdd")
    /\ ChangeChannel(p, [channelMap[At(p)] EXCEPT !.messages =
            IF Contains(Arg(p), @) THEN @ ELSE Newest(Append(@, Arg(p)))])
    /\ Return(p)
    /\ UNCHANGED <<guildMap, listed, leftOver, memberMap, private, gateway, calls, events, torn>>

MessageRemove(p) ==
    /\ Found(p, "MessageRemove")
    /\ ChangeChannel(p, [channelMap[At(p)] EXCEPT !.messages = Without(Arg(p), @)])
    /\ Return(p)
    /\ UNCHANGED <<guildMap, listed, leftOver, memberMap, private, gateway, calls, events, torn>>

-----------------------------------------------------------------------------
(* READY replaces the slices and adds to the maps. *)

onReady(p) ==
    /\ NextCall(p, "Ready")
    /\ LET r == Arg(p) IN
       /\ listed' = r.guilds
       /\ private' = r.private
       /\ leftOver' = (leftOver \ r.guilds)
                      \cup {g \in Guild \ r.guilds : HasGuild(g)}
                      \cup {c \in Text \cup Thread : Home[c] \in r.guilds /\ HasChannel(c)}
       /\ guildMap' = [g \in Guild |-> IF g \in r.guilds THEN NewGuild ELSE guildMap[g]]
       /\ memberMap' = [g \in Guild |-> IF g \in r.guilds THEN {} ELSE memberMap[g]]
       /\ channelMap' = [c \in Channel |-> IF c \in r.private THEN NewChannel
                                           ELSE channelMap[c]]
       /\ ReturnDetaching(p, r.guilds \cup r.private)
    /\ UNCHANGED <<gateway, calls, events, torn>>

Methods(p) ==
    \/ Look(p)
    \/ GuildAdd(p) \/ GuildRemove(p)
    \/ MemberCount(p) \/ MemberAdd(p) \/ MemberRemove(p)
    \/ RoleAdd(p) \/ RoleRemove(p) \/ EmojiAdd(p) \/ PresenceRemove(p)
    \/ voiceStateUpdate(p) \/ SetEmojis(p) \/ PresenceAdd(p)
    \/ ChannelAdd(p) \/ ChannelRemove(p)
    \/ ThreadListSync(p) \/ ThreadMembersUpdate(p) \/ ThreadMemberUpdate(p)
    \/ MessageAdd(p) \/ MessageRemove(p)
    \/ onReady(p)

-----------------------------------------------------------------------------
(* The gateway's events, as OnInterface hands them to the methods.          *)

Op(op, at, arg) == [op |-> op, at |-> at, arg |-> arg]
Tracks(kind, ops) == IF kind \in Track THEN ops ELSE <<>>

\* The loop makes the calls, if the client hears of the guild (every channel
\* without a guild is heard of while there is a session).
Tell(hears, ops) ==
    /\ todo[loop] = <<>> /\ events < MaxEvents
    /\ todo' = IF hears THEN [todo EXCEPT ![loop] = ops] ELSE todo
    /\ events' = events + 1
    /\ UNCHANGED <<cache, looked, oldThreads, calls, torn>>
Hears(c) == online /\ (c \in Private \/ Home[c] \in heard)

\* What a GuildCreate brings: of the members those in M, of a large guild not all.
Whole(g, M) == [members |-> M, count |-> Cardinality(truth[g].members) + 1,
                channels |-> truth[g].channels, threads |-> truth[g].threads,
                items |-> truth[g].items]
Bare(items) == [members |-> None, count |-> 0, channels |-> None, threads |-> None,
                items |-> items]

\* A new session, without a resume, names the guilds of the bot; what they
\* hold comes with a GuildCreate for each.  Some accounts get private channels.
Ready ==
    /\ ~online
    /\ \E P \in {{}, Private} :
        Tell(TRUE, <<Op("Ready", None, [guilds |-> joined, private |-> P])>>)
    /\ online' = TRUE
    /\ UNCHANGED <<truth, joined, messages, used, heard, told>>

SessionLost ==
    /\ online
    /\ Tell(FALSE, <<>>)
    /\ online' = FALSE
    /\ heard' = {}
    /\ UNCHANGED <<truth, joined, messages, used, told>>

BotJoins(g) ==
    /\ g \notin joined
    /\ Tell(FALSE, <<>>)
    /\ joined' = joined \cup {g}
    /\ UNCHANGED <<truth, messages, used, heard, online, told>>

GuildCreate(g) ==
    /\ online /\ g \in joined \ heard
    /\ \E M \in SUBSET truth[g].members :
        /\ Tell(TRUE, <<Op("GuildAdd", g, Whole(g, M))>>)
        /\ told' = [told EXCEPT ![g] = M]
    /\ heard' = heard \cup {g}
    /\ UNCHANGED <<truth, joined, messages, used, online>>

\* The bot leaves the guild, or the guild is unavailable for some time.
GuildDelete(g) ==
    /\ g \in joined
    /\ Tell(online, <<Op("GuildRemove", g, None)>>)
    /\ heard' = heard \ {g}
    /\ joined' \in {joined \ {g}, IF g \in heard THEN joined ELSE joined \ {g}}
    /\ UNCHANGED <<truth, messages, used, online, told>>

\* An event of a guild that changes the truth to rec.
GuildEvent(g, rec, ops) ==
    /\ Tell(g \in heard, ops)
    /\ truth' = [truth EXCEPT ![g] = rec]
    /\ UNCHANGED <<joined, messages, heard, online>>
GuildChange(g, rec, ops) == GuildEvent(g, rec, ops) /\ UNCHANGED <<used, told>>

\* An event about a member, after which the client knows the users in S.
MemberEvent(g, S, rec, ops) ==
    /\ GuildEvent(g, rec, ops)
    /\ told' = [told EXCEPT ![g] = S]
    /\ UNCHANGED used

GuildUpdate(g) ==
    \E items \in {None, truth[g].items} :
        GuildChange(g, truth[g], <<Op("GuildAdd", g, Bare(items))>>)

GuildMemberAdd(g, u) ==
    /\ u \notin truth[g].members
    /\ MemberEvent(g, told[g] \cup {u}, [truth[g] EXCEPT !.members = @ \cup {u}],
            <<Op("MemberCount", g, 1)>> \o Tracks("members", <<Op("MemberAdd", g, u)>>))

GuildMemberRemove(g, u) ==
    /\ u \in truth[g].members
    /\ MemberEvent(g, told[g] \ {u}, [truth[g] EXCEPT !.members = @ \ {u}],
            <<Op("MemberCount", g, -1)>> \o Tracks("members", <<Op("MemberRemove", g, u)>>))

\* GuildMemberUpdate, and a GuildMembersChunk with one member.
GuildMemberUpdate(g, u) ==
    /\ u \in truth[g].members
    /\ MemberEvent(g, told[g] \cup {u}, truth[g],
            Tracks("members", <<Op("MemberAdd", g, u)>>))

\* A member who is not cached is added, unless the presence says that he is offline.
PresenceUpdate(g, u, i, offline) ==
    /\ u \in truth[g].members
    /\ MemberEvent(g, IF offline THEN told[g] ELSE told[g] \cup {u},
            [truth[g] EXCEPT !.items = @ \cup {i}],
            Tracks("items", <<Op("PresenceAdd", g, i)>>)
            \o (IF offline THEN <<>> ELSE Tracks("members", <<Op("MemberAdd", g, u)>>)))

\* GuildRoleCreate and GuildRoleUpdate.
GuildRoleCreate(g, i) ==
    GuildChange(g, [truth[g] EXCEPT !.items = @ \cup {i}],
        Tracks("items", <<Op("RoleAdd", g, i)>>))

GuildRoleDelete(g, i) ==
    /\ i \in truth[g].items
    /\ GuildChange(g, [truth[g] EXCEPT !.items = @ \ {i}],
            Tracks("items", <<Op("RoleRemove", g, i)>>))

VoiceStateUpdate(g, i, joins) ==
    GuildChange(g, [truth[g] EXCEPT !.items = IF joins THEN @ \cup {i} ELSE @ \ {i}],
        Tracks("items", <<Op("voiceStateUpdate", g, [item |-> i, joins |-> joins])>>))

GuildEmojisUpdate(g) ==
    \E E \in SUBSET Item :
        GuildChange(g, [truth[g] EXCEPT !.items = E],
            Tracks("items", <<Op("SetEmojis", g, E)>>))

\* ChannelCreate and ChannelUpdate.
ChannelCreate(c) ==
    /\ c \in used => c \in truth[Home[c]].channels
    /\ GuildEvent(Home[c], [truth[Home[c]] EXCEPT !.channels = @ \cup {c}],
            Tracks("channels", <<Op("ChannelAdd", c, FALSE)>>))
    /\ used' = used \cup {c}
    /\ UNCHANGED told

\* The threads of a channel end with it; the client hears of the channel.
ChannelDelete(c) ==
    /\ c \in truth[Home[c]].channels
    /\ GuildChange(Home[c], [truth[Home[c]] EXCEPT
                !.channels = @ \ {c}, !.threads = {t \in @ : Parent[t] # c}],
            Tracks("channels", <<Op("ChannelRemove", Home[c], c)>>))

\* ThreadCreate and ThreadUpdate; an archived thread is not active any more,
\* until it is unarchived.
ThreadUpdate(t, archived) ==
    /\ t \notin used /\ Parent[t] \in truth[Home[t]].channels
    /\ archived => t \in truth[Home[t]].threads
    /\ GuildChange(Home[t], [truth[Home[t]] EXCEPT
                !.threads = IF archived THEN @ \ {t} ELSE @ \cup {t}],
            Tracks("threads", <<Op("ChannelAdd", t, archived)>>))

ThreadDelete(t) ==
    /\ t \in truth[Home[t]].threads
    /\ GuildEvent(Home[t], [truth[Home[t]] EXCEPT !.threads = @ \ {t}],
            Tracks("threads", <<Op("ChannelRemove", Home[t], t)>>))
    /\ used' = used \cup {t}
    /\ UNCHANGED told

\* The active threads of the channels named, or of the whole guild.
ThreadListSyncEvent(g, ids) ==
    \E mine \in SUBSET truth[g].threads :
        LET synced == {t \in truth[g].threads : ids = None \/ Parent[t] \in ids} IN
        GuildChange(g, truth[g], Tracks("threads", <<Op("ThreadListSync", g,
            [ids |-> ids, threads |-> synced, mine |-> mine])>>))

\* An added user may come with his Member and with a presence.
ThreadMembersEvent(t, added, removed) ==
    /\ t \in truth[Home[t]].threads /\ added \subseteq truth[Home[t]].members
    /\ \E named \in SUBSET added,
          presences \in SUBSET (IF added = {} THEN {} ELSE truth[Home[t]].items) :
        GuildChange(Home[t], truth[Home[t]], Tracks("threadMembers",
            <<Op("ThreadMembersUpdate", t, [added |-> added, removed |-> removed,
                                            named |-> named, presences |-> presences])>>))

ThreadMemberEvent(t) ==
    /\ t \in truth[Home[t]].threads
    /\ GuildChange(Home[t], truth[Home[t]],
            Tracks("threads", <<Op("ThreadMemberUpdate", t, None)>>))

\* ChannelCreate and ChannelDelete of a private channel.
PrivateChannel(c, op) ==
    /\ Tell(online, Tracks("channels",
            <<IF op = "ChannelAdd" THEN Op(op, c, FALSE) ELSE Op(op, None, c)>>))
    /\ messages' = IF op = "ChannelRemove" THEN [messages EXCEPT ![c] = <<>>] ELSE messages
    /\ UNCHANGED <<truth, joined, used, heard, online, told>>

Exists(c) == \/ c \in Private
             \/ c \in truth[Home[c]].channels \cup truth[Home[c]].threads

MessageEvent(c, list, op, m) ==
    /\ Exists(c)
    /\ Tell(Hears(c), <<Op(op, c, m)>>)
    /\ messages' = [messages EXCEPT ![c] = list]
    /\ UNCHANGED <<truth, joined, heard, online, told>>

MessageCreate(m) ==
    /\ m \notin used
    /\ used' = used \cup {m}
    /\ MessageEvent(In[m], Append(messages[In[m]], m), "MessageAdd", m)

MessageUpdate(m) ==
    /\ Contains(m, messages[In[m]])
    /\ MessageEvent(In[m], messages[In[m]], "MessageAdd", m)
    /\ UNCHANGED used

\* MessageDelete, and MessageDeleteBulk with one message.
MessageDelete(m) ==
    /\ Contains(m, messages[In[m]])
    /\ MessageEvent(In[m], Without(m, messages[In[m]]), "MessageRemove", m)
    /\ UNCHANGED used

GuildEvents(g) ==
    \/ BotJoins(g) \/ GuildCreate(g) \/ GuildDelete(g) \/ GuildUpdate(g)
    \/ GuildEmojisUpdate(g)
    \/ \E u \in User :
        \/ GuildMemberAdd(g, u) \/ GuildMemberRemove(g, u) \/ GuildMemberUpdate(g, u)
        \/ \E i \in Item, offline \in BOOLEAN : PresenceUpdate(g, u, i, offline)
    \/ \E i \in Item :
        \/ GuildRoleCreate(g, i) \/ GuildRoleDelete(g, i)
        \/ \E joins \in BOOLEAN : VoiceStateUpdate(g, i, joins)
    \/ \E ids \in (SUBSET Text) \cup {None} : ThreadListSyncEvent(g, ids)

ChannelEvents ==
    \/ \E c \in Text : ChannelCreate(c) \/ ChannelDelete(c)
    \/ \E t \in Thread :
        \/ \E archived \in BOOLEAN : ThreadUpdate(t, archived)
        \/ ThreadDelete(t) \/ ThreadMemberEvent(t)
        \/ \E u \in User : ThreadMembersEvent(t, {u}, {}) \/ ThreadMembersEvent(t, {}, {u})
    \/ \E c \in Private, op \in {"ChannelAdd", "ChannelRemove"} : PrivateChannel(c, op)
    \/ \E m \in Message : MessageCreate(m) \/ MessageUpdate(m) \/ MessageDelete(m)

Gateway == Ready \/ SessionLost \/ (\E g \in Guild : GuildEvents(g)) \/ ChannelEvents

-----------------------------------------------------------------------------
(* The program *)

Calls(p, op, at, arg) ==
    /\ op \in ProgramOps /\ todo[p] = <<>> /\ calls < MaxCalls
    /\ todo' = [todo EXCEPT ![p] = <<Op(op, at, arg)>>]
    /\ calls' = calls + 1
    /\ UNCHANGED <<cache, looked, oldThreads, gateway, events, torn>>

ProgramCalls(p) ==
    \/ \E g \in Guild :
        \/ Calls(p, "GuildAdd", g, Bare({})) \/ Calls(p, "GuildRemove", g, None)
        \/ \E u \in User : Calls(p, "MemberAdd", g, u) \/ Calls(p, "MemberRemove", g, u)
        \/ \E i \in Item, op \in {"RoleAdd", "RoleRemove", "EmojiAdd", "PresenceRemove"} :
              Calls(p, op, g, i)
    \/ \E c \in Text \cup Thread :
        Calls(p, "ChannelAdd", c, FALSE) \/ Calls(p, "ChannelRemove", Home[c], c)
    \/ \E m \in Message : Calls(p, "MessageAdd", In[m], m) \/ Calls(p, "MessageRemove", In[m], m)

Next == (\E p \in Proc : Methods(p)) \/ Gateway \/ \E p \in Program : ProgramCalls(p)

Spec == Init /\ [][Next]_vars

-----------------------------------------------------------------------------
(* Properties *)

\* Map and slices describe one cache, through any interleaving of the methods'
\* two halves: whoever is in a guild's Members is found by Member, whatever is in
\* its Channels or Threads is found by Channel and every guild in Guilds by Guild;
\* and what Channel and Guild find is in such a list, unless it is left over from
\* a list that was replaced.  A call that found its guild before the guild was
\* removed and changes the maps afterwards is the exception (MemberRemove,
\* ChannelRemove and ThreadListSync take the entry of the new guild out of the map).
Agree ==
    /\ listed \subseteq {g \in Guild : HasGuild(g)}
    /\ {g \in Guild : HasGuild(g)} \subseteq listed \cup leftOver
    /\ \A g \in Guild \ torn : HasGuild(g) =>
        /\ memberMap[g] # None
        /\ guildMap[g].members \subseteq memberMap[g]
        /\ \A c \in guildMap[g].channels \cup guildMap[g].threads :
              HasChannel(c) /\ Home[c] = g
        /\ \A c \in Text \cup Thread :
              Home[c] = g /\ HasChannel(c) =>
                  c \in guildMap[g].channels \cup guildMap[g].threads \cup leftOver

\* While the program leaves the cache to the events, what it has of a guild the
\* client hears of is as at the gateway, whatever was lost before the session
\* began and whatever is left over in the maps.  The guild itself is found, and in
\* Guilds unless it is left over.  The number of its members is right; those an
\* event named are cached, and nobody else but members.  The channels and the other
\* lists are the guild's.  An active thread is found and, unless it is left over,
\* listed; a listed thread that has ended is archived or its channel was deleted
\* (ChannelRemove leaves the threads of a channel where they are).
Current ==
    calls = 0 /\ todo[loop] = <<>> => \A g \in heard :
        /\ HasGuild(g) /\ g \in listed \cup leftOver
        /\ LET rec == guildMap[g]  now == truth[g] IN
           /\ rec.count = Cardinality(now.members) + 1
           /\ "members" \in Track =>
                 /\ told[g] \subseteq rec.members /\ rec.members \subseteq now.members
                 /\ memberMap[g] = rec.members
           /\ "channels" \in Track => rec.channels = now.channels
           /\ "threads" \in Track =>
                 /\ \A t \in rec.threads \ now.threads :
                       channelMap[t].archived \/ Parent[t] \notin now.channels
                 /\ \A t \in now.threads :
                       /\ HasChannel(t) /\ ~channelMap[t].archived
                       /\ t \in rec.threads \cup leftOver
           /\ "items" \in Track => rec.items = now.items

\* The messages of a channel are not more than MaxMessageCount, none is twice
\* among them, and with the program as above none that was deleted is left in
\* a channel or thread that a guild the client hears of lists, though it lost
\* the deletions of the time between two sessions.  A thread that was archived
\* in that time is not listed again when it is unarchived, and the map gives it
\* its old messages back; the threads of a channel that was deleted keep theirs.
MessagesKept ==
    \A c \in Channel : HasChannel(c) =>
        LET list == channelMap[c].messages IN
        /\ Len(list) <= MaxMessageCount
        /\ \A i, j \in DOMAIN list : list[i] = list[j] => i = j
        /\ /\ calls = 0 /\ todo[loop] = <<>> /\ c \notin Private /\ Home[c] \in heard
           /\ c \in guildMap[Home[c]].channels \cup guildMap[Home[c]].threads
           /\ c \in Thread => Parent[c] \in truth[Home[c]].channels
           => \A i \in DOMAIN list : Contains(list[i], messages[c])

\* The comment of GuildAdd: "adds a guild to the current world state", whose
\* Guilds the program ranges over.  One that was left while there was no session and
\* joined again after it began is found in the map and not listed again.
GuildsListed ==
    calls = 0 /\ todo[loop] = <<>> => heard \subseteq listed

\* The comment of ChannelRemove: "removes a channel from current world state".  The
\* threads of the channel stay.
ThreadsHaveChannels ==
    calls = 0 /\ todo[loop] = <<>> =>
        \A g \in heard : \A t \in guildMap[g].threads : Parent[t] \in truth[g].channels

\* The comment of State.Guild: "Useful for querying if @me is in a guild ...
\* isInGuild := err == nil", with nothing on the way and a program that only
\* looks.
GuildMeansIn ==
    calls = 0 /\ todo[loop] = <<>> /\ online =>
        \A g \in Guild : HasGuild(g) => g \in joined
=============================================================================
