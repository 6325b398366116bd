------------------------- MODULE StateCacheProofs -------------------------
(***************************************************************************)
(* Theorems about StateCache, for any guilds, channels, members and any    *)
(* number of goroutines of the program: the types; that the maps and the   *)
(* slices of the cache agree; and, while the program leaves the cache to   *)
(* the events, that it holds what is true at the gateway and no message    *)
(* that was deleted.                                                       *)
(***************************************************************************)
EXTENDS StateCache, FiniteSetTheorems, SequenceTheorems, TLAPS

-----------------------------------------------------------------------------
(* The inductive invariant.  First the calls a goroutine may have to make:  *)
(* where, and what with.                                                    *)

\* What a guild comes with; None is a list that the event does not bring.
GuildGiven == [members: (SUBSET User) \cup {None}, count: Int,
               channels: (SUBSET Text) \cup {None}, threads: (SUBSET Thread) \cup {None},
               items: (SUBSET Item) \cup {None}]

\* Calls of the methods that take a member or one item of a list.
MemberOps == {"MemberAdd", "MemberRemove"}
ItemOps == {"RoleAdd", "RoleRemove", "EmojiAdd", "PresenceRemove", "PresenceAdd"}
MessageOps == {"MessageAdd", "MessageRemove"}

Call ==
    {x \in [op: {"GuildAdd"}, at: Guild, arg: GuildGiven] :
        \A c \in ChannelsOf(x.arg) : Home[c] = x.at}
    \cup [op: {"GuildRemove"}, at: Guild, arg: {None}]
    \cup [op: {"MemberCount"}, at: Guild, arg: {1, -1}]
    \cup [op: MemberOps, at: Guild, arg: User]
    \cup [op: ItemOps, at: Guild, arg: Item]
    \cup [op: {"voiceStateUpdate"}, at: Guild, arg: [item: Item, joins: BOOLEAN]]
    \cup [op: {"SetEmojis"}, at: Guild, arg: SUBSET Item]
    \cup [op: {"ChannelAdd"}, at: Channel, arg: BOOLEAN]
    \cup {x \in [op: {"ChannelRemove"}, at: Guild, arg: Text \cup Thread] :
            x.at = Home[x.arg]}
    \cup [op: {"ChannelRemove"}, at: {None}, arg: Private]
    \cup {x \in [op: {"ThreadListSync"}, at: Guild,
                 arg: [ids: (SUBSET Text) \cup {None}, threads: SUBSET Thread,
                       mine: SUBSET Thread]] :
            \A t \in x.arg.threads : Home[t] = x.at}
    \cup [op: {"ThreadMembersUpdate"}, at: Thread,
          arg: [added: SUBSET User, removed: SUBSET User,
                named: SUBSET User, presences: SUBSET Item]]
    \cup [op: {"ThreadMemberUpdate"}, at: Thread, arg: {None}]
    \cup {x \in [op: MessageOps, at: Channel, arg: Message] : x.at = In[x.arg]}
    \cup [op: {"Ready"}, at: {None},
          arg: [guilds: SUBSET Guild, private: {{}, Private}]]

CacheOK ==
    /\ guildMap \in [Guild -> GuildRecord \cup {None}]
    /\ listed \in SUBSET Guild
    /\ memberMap \in [Guild -> (SUBSET User) \cup {None}]
    /\ channelMap \in [Channel -> ChannelRecord \cup {None}]
    /\ private \in SUBSET Private

CallsOK ==
    /\ todo \in [Proc -> Seq(Call)]
    /\ looked \in [Proc -> {"no", "live", "gone"}]
    /\ oldThreads \in [Proc -> SUBSET Thread]

GatewayOK ==
    /\ truth \in [Guild -> GuildRecord]
    /\ joined \in SUBSET Guild /\ heard \in SUBSET joined
    /\ messages \in [Channel -> Seq(Message)]
    /\ online \in BOOLEAN

BoundsOK == calls \in 0 .. MaxCalls /\ events \in 0 .. MaxEvents /\ torn \in SUBSET Guild

\* A lookup is of the first call, and lives while its object is in the cache.
\* The threads it remembers are those of its guild.
Halves ==
    \A p \in Proc :
        /\ looked[p] = "no" => oldThreads[p] = {}
        /\ looked[p] # "no" => todo[p] # <<>>
        /\ looked[p] = "live" /\ At(p) \in Guild => HasGuild(At(p))
        /\ looked[p] = "live" /\ At(p) \in Channel => HasChannel(At(p))
        /\ \A t \in oldThreads[p] : Home[t] = At(p)

\* The channels and threads of a guild, here and at the gateway, are its own.
ListOf(rec) == rec.channels \cup rec.threads
Homes ==
    /\ \A g \in Guild : \A c \in ListOf(truth[g]) : Home[c] = g
    /\ \A g \in Guild : HasGuild(g) => \A c \in ListOf(guildMap[g]) : Home[c] = g

\* Agree, in parts: of Guilds, and of a guild's members and channels.
ListedHere == \A g \in listed : HasGuild(g)
MembersAgree ==
    \A g \in Guild \ torn : HasGuild(g) =>
        memberMap[g] # None /\ guildMap[g].members \subseteq memberMap[g]
ChannelsAgree ==
    \A g \in Guild \ torn : HasGuild(g) =>
        \A c \in ListOf(guildMap[g]) : HasChannel(c)

IInv ==
    /\ CacheOK /\ CallsOK /\ GatewayOK /\ BoundsOK
    /\ Halves /\ Homes
    /\ ListedHere /\ MembersAgree /\ ChannelsAgree

-----------------------------------------------------------------------------
(* Calls *)

\* What a call is of, by its method.
LEMMA CallKinds ==
    ASSUME NEW x \in Call
    PROVE  /\ x.op = "GuildAdd" =>
                  /\ x.at \in Guild /\ x.arg \in GuildGiven
                  /\ \A c \in ChannelsOf(x.arg) : Home[c] = x.at
           /\ x.op = "GuildRemove" => x.at \in Guild
           /\ x.op = "MemberCount" => x.at \in Guild /\ x.arg \in {1, -1}
           /\ x.op \in MemberOps => x.at \in Guild /\ x.arg \in User
           /\ x.op \in ItemOps => x.at \in Guild /\ x.arg \in Item
           /\ x.op = "voiceStateUpdate" => x.at \in Guild /\ x.arg.item \in Item
           /\ x.op = "SetEmojis" => x.at \in Guild /\ x.arg \in SUBSET Item
           /\ x.op = "ChannelAdd" => x.at \in Channel /\ x.arg \in BOOLEAN
           /\ x.op = "ChannelRemove" =>
                  \/ x.arg \in Text \cup Thread /\ x.at \in Guild /\ x.at = Home[x.arg]
                  \/ x.arg \in Private /\ x.at = None
           /\ x.op = "ThreadListSync" =>
                  /\ x.at \in Guild
                  /\ x.arg.ids \in (SUBSET Text) \cup {None}
                  /\ x.arg.threads \in SUBSET Thread /\ x.arg.mine \in SUBSET Thread
                  /\ \A t \in x.arg.threads : Home[t] = x.at
           /\ x.op = "ThreadMembersUpdate" =>
                  /\ x.at \in Thread
                  /\ x.arg.added \in SUBSET User /\ x.arg.removed \in SUBSET User
                  /\ x.arg.named \in SUBSET User /\ x.arg.presences \in SUBSET Item
           /\ x.op = "ThreadMemberUpdate" => x.at \in Thread
           /\ x.op \in MessageOps => x.at \in Channel /\ x.arg \in Message
           /\ x.op = "Ready" =>
                  x.arg.guilds \in SUBSET Guild /\ x.arg.private \in SUBSET Private
BY SMTT(60) DEF Call, MemberOps, ItemOps, MessageOps

\* The first call of a goroutine, and those after it.
LEMMA First ==
    ASSUME CallsOK, NEW p \in Proc, todo[p] # <<>>
    PROVE  Head(todo[p]) \in Call /\ Tail(todo[p]) \in Seq(Call)
BY DEF CallsOK

\* A call that only returns leaves the lookups of the others alive.
LEMMA ReturnKeeps ==
    ASSUME CallsOK, Halves, NEW p \in Proc, todo[p] # <<>>, Return(p),
           \A g \in Guild : HasGuild(g) => HasGuild(g)',
           \A c \in Channel : HasChannel(c) => HasChannel(c)'
    PROVE  CallsOK' /\ Halves'
<1>1. CallsOK'
    BY First DEF CallsOK, Return
<1>2. \A q \in Proc : q # p =>
          todo'[q] = todo[q] /\ looked'[q] = looked[q] /\ oldThreads'[q] = oldThreads[q]
    BY DEF CallsOK, Return
<1>3. looked'[p] = "no" /\ oldThreads'[p] = {}
    BY DEF CallsOK, Return
<1>4. Halves'
    BY <1>2, <1>3 DEF Halves, At
<1> QED  BY <1>1, <1>4

\* The same when objects leave the cache, or are replaced, and the others are
\* told.
LEMMA DetachKeeps ==
    ASSUME CacheOK, CallsOK, Halves, Homes, NEW p \in Proc, todo[p] # <<>>,
           NEW S, ReturnDetaching(p, S),
           \A g \in Guild : HasGuild(g) => HasGuild(g)' \/ g \in S,
           \A c \in Channel : HasChannel(c) => HasChannel(c)' \/ c \in S
    PROVE  CallsOK' /\ Halves'
<1> DEFINE holds(q) == q # p /\ looked[q] = "live" /\ At(q) \in S
<1>1. /\ todo' = [todo EXCEPT ![p] = Tail(@)]
      /\ looked' = [q \in Proc |-> IF q = p THEN "no"
                                   ELSE IF holds(q) THEN "gone" ELSE looked[q]]
      /\ oldThreads' = [q \in Proc |->
              IF q = p THEN {}
              ELSE IF holds(q) /\ At(q) \in Guild /\ guildMap[At(q)] # None
                   THEN guildMap[At(q)].threads
              ELSE oldThreads[q]]
    BY DEF ReturnDetaching
<1>2. \A g \in Guild : guildMap[g] # None =>
          guildMap[g].threads \in SUBSET Thread /\ \A t \in guildMap[g].threads : Home[t] = g
    BY DEF CacheOK, GuildRecord, Homes, HasGuild, ListOf
<1>3. CallsOK'
    <2>1. todo' \in [Proc -> Seq(Call)]
        BY <1>1, First DEF CallsOK
    <2>2. looked' \in [Proc -> {"no", "live", "gone"}]
        BY <1>1 DEF CallsOK
    <2>3. oldThreads' \in [Proc -> SUBSET Thread]
        BY <1>1, <1>2 DEF CallsOK
    <2> QED  BY <2>1, <2>2, <2>3 DEF CallsOK
<1>4. ASSUME NEW q \in Proc, q # p
      PROVE  /\ looked'[q] = "no" => oldThreads'[q] = {}
             /\ looked'[q] # "no" => todo'[q] # <<>>
             /\ looked'[q] = "live" /\ At(q)' \in Guild => HasGuild(At(q))'
             /\ looked'[q] = "live" /\ At(q)' \in Channel => HasChannel(At(q))'
             /\ \A t \in oldThreads'[q] : Home[t] = At(q)'
    <2>1. todo'[q] = todo[q] /\ At(q)' = At(q)
        BY <1>1, <1>4 DEF CallsOK, At
    <2>2. CASE holds(q)
        <3>1. looked'[q] = "gone" /\ looked[q] = "live"
            BY <1>1, <1>4, <2>2
        <3>2. \A t \in oldThreads'[q] : Home[t] = At(q)
            BY <1>1, <1>2, <1>4, <2>2 DEF Halves
        <3> QED  BY <2>1, <3>1, <3>2 DEF Halves
    <2>3. CASE ~holds(q)
        <3>1. looked'[q] = looked[q] /\ oldThreads'[q] = oldThreads[q]
            BY <1>1, <1>4, <2>3
        <3> HIDE DEF holds
        <3>2. looked'[q] = "live" => At(q) \notin S
            BY <1>4, <2>3, <3>1 DEF holds
        <3> QED  BY <2>1, <3>1, <3>2 DEF Halves, HasGuild, HasChannel
    <2> QED  BY <2>2, <2>3
<1>5. looked'[p] = "no" /\ oldThreads'[p] = {}
    BY <1>1
<1>6. Halves'
    BY <1>4, <1>5 DEF Halves
<1> QED  BY <1>3, <1>6

-----------------------------------------------------------------------------
(* The steps of the methods.                                                *)

\* The first call of p, when it is of the given method.
LEMMA CallOf ==
    ASSUME CallsOK, NEW p \in Proc, NEW op, NextCall(p, op)
    PROVE  /\ todo[p] # <<>> /\ Head(todo[p]) \in Call
           /\ Head(todo[p]).op = op
           /\ At(p) = Head(todo[p]).at /\ Arg(p) = Head(todo[p]).arg
BY First DEF NextCall, At, Arg

\* A lookup reads the cache, and ends a call that found nothing.
LEMMA LookInv ==
    ASSUME IInv, NEW p \in Proc, Look(p)
    PROVE  IInv'
<1>1. /\ todo[p] # <<>> /\ looked[p] = "no"
      /\ UNCHANGED <<cache, oldThreads, gateway, calls, events, torn>>
    BY DEF Look
<1>2. \/ /\ looked' = [looked EXCEPT ![p] = "live"] /\ UNCHANGED todo
         /\ At(p) \in Guild => HasGuild(At(p))
         /\ At(p) \in Channel => HasChannel(At(p))
      \/ /\ \/ todo' = [todo EXCEPT ![p] = <<>>]
            \/ todo' = [todo EXCEPT ![p] = Tail(@)]
         /\ UNCHANGED looked
    BY ConstantsAssumption DEF Look
<1>3. CallsOK'
    <2>1. oldThreads' = oldThreads /\ Tail(todo[p]) \in Seq(Call)
        BY <1>1, First DEF IInv
    <2>2. todo \in [Proc -> Seq(Call)] /\ <<>> \in Seq(Call)
        BY DEF IInv, CallsOK
    <2>3. todo' \in [Proc -> Seq(Call)]
        <3>1. CASE UNCHANGED todo
            BY <2>2, <3>1
        <3>2. CASE todo' = [todo EXCEPT ![p] = <<>>]
            BY <2>2, <3>2
        <3>3. CASE todo' = [todo EXCEPT ![p] = Tail(@)]
            BY <2>1, <2>2, <3>3
        <3> QED  BY <1>2, <3>1, <3>2, <3>3
    <2>4. looked' \in [Proc -> {"no", "live", "gone"}]
        BY <1>2 DEF IInv, CallsOK
    <2> QED  BY <2>1, <2>3, <2>4 DEF IInv, CallsOK
<1>4. \A q \in Proc : q # p => todo'[q] = todo[q] /\ looked'[q] = looked[q]
    BY <1>2 DEF IInv, CallsOK
<1>5. UNCHANGED <<guildMap, listed, memberMap, channelMap, private, oldThreads,
                  truth, joined, messages, heard, online, calls, events, torn>>
    BY <1>1 DEF cache, gateway
<1>6. Halves'
    <2>1. oldThreads[p] = {}
        BY <1>1 DEF IInv, Halves
    <2>2. \/ looked'[p] = "live" /\ todo'[p] = todo[p]
             /\ (At(p) \in Guild => HasGuild(At(p)))
             /\ (At(p) \in Channel => HasChannel(At(p)))
          \/ looked'[p] = "no"
        BY <1>1, <1>2 DEF IInv, CallsOK
    <2>3. \A q \in Proc : q # p => At(q)' = At(q)
        BY <1>4 DEF At
    <2> QED  BY <1>1, <1>4, <1>5, <2>1, <2>2, <2>3 DEF IInv, Halves, At, HasGuild, HasChannel
<1>7. CacheOK' /\ GatewayOK' /\ BoundsOK' /\ Homes'
    BY <1>5 DEF IInv, CacheOK, GatewayOK, BoundsOK, Homes, HasGuild
<1>8. ListedHere' /\ MembersAgree' /\ ChannelsAgree'
    BY <1>5 DEF IInv, ListedHere, MembersAgree, ChannelsAgree, HasGuild, HasChannel
<1> QED  BY <1>3, <1>6, <1>7, <1>8 DEF IInv

\* A step of a method leaves the gateway and the bounds alone, but for torn.
LEMMA CacheStep ==
    ASSUME GatewayOK, BoundsOK, UNCHANGED <<gateway, calls, events>>, torn' \in SUBSET Guild
    PROVE  GatewayOK' /\ BoundsOK'
BY DEF GatewayOK, BoundsOK, gateway

\* A step that changes one guild's fields, which keep to their types, has the
\* same guilds, channels and members as before.
LEMMA GuildStep ==
    ASSUME IInv, NEW p \in Proc, todo[p] # <<>>, Return(p),
           NEW g \in Guild, NEW rec \in GuildRecord,
           HasGuild(g) => /\ rec.members = guildMap[g].members
                          /\ rec.channels = guildMap[g].channels
                          /\ rec.threads = guildMap[g].threads,
           \/ UNCHANGED guildMap
           \/ HasGuild(g) /\ guildMap' = [guildMap EXCEPT ![g] = rec],
           UNCHANGED <<listed, memberMap, channelMap, private, gateway, calls, events, torn>>
    PROVE  IInv'
<1>1. \A h \in Guild : HasGuild(h)' <=> HasGuild(h)
    BY NoneAssumption DEF IInv, CacheOK, HasGuild
<1>2. \A c : HasChannel(c)' <=> HasChannel(c)
    BY DEF HasChannel
<1>3. \A h \in Guild : HasGuild(h) =>
          /\ guildMap'[h].members = guildMap[h].members
          /\ guildMap'[h].channels = guildMap[h].channels
          /\ guildMap'[h].threads = guildMap[h].threads
    BY DEF IInv, CacheOK
<1>4. CallsOK' /\ Halves'
    BY <1>1, <1>2, ReturnKeeps DEF IInv
<1>5. CacheOK'
    BY DEF IInv, CacheOK
<1>6. GatewayOK' /\ BoundsOK'
    BY CacheStep DEF IInv, BoundsOK
<1>7. Homes'
    BY <1>1, <1>3 DEF IInv, Homes, ListOf, gateway
<1>8. ListedHere' /\ MembersAgree'
    BY <1>1, <1>3 DEF IInv, ListedHere, MembersAgree, CacheOK
<1>9. ChannelsAgree'
    <2>1. \A h \in Guild : HasGuild(h) => ListOf(guildMap[h])' = ListOf(guildMap[h])
        BY <1>3 DEF ListOf
    <2> QED  BY <1>1, <1>2, <2>1 DEF IInv, ChannelsAgree
<1> QED  BY <1>4, <1>5, <1>6, <1>7, <1>8, <1>9 DEF IInv

\* What p looked up, if it lives, is in the cache.
LEMMA LiveGuild ==
    ASSUME IInv, NEW p \in Proc, Live(p), At(p) \in Guild
    PROVE  HasGuild(At(p)) /\ guildMap[At(p)] \in GuildRecord
BY DEF IInv, Live, Halves, CacheOK, HasGuild

LEMMA MemberCountInv ==
    ASSUME IInv, NEW p \in Proc, MemberCount(p)
    PROVE  IInv'
<1>1. /\ NextCall(p, "MemberCount") /\ Return(p)
      /\ UNCHANGED <<listed, memberMap, channelMap, private, gateway, calls, events, torn>>
    BY DEF MemberCount, Found
<1>2. todo[p] # <<>> /\ At(p) \in Guild /\ Arg(p) \in Int
    BY <1>1, CallOf, CallKinds DEF IInv
<1>3. CASE Live(p)
    <2>1. PICK g \in Guild : g = At(p)
        BY <1>2
    <2>2. PICK rec : rec = [guildMap[g] EXCEPT !.count = @ + Arg(p)]
        OBVIOUS
    <2>3. guildMap' = [guildMap EXCEPT ![g] = rec] /\ HasGuild(g) /\ guildMap[g] \in GuildRecord
        BY <1>2, <1>3, <2>1, <2>2, LiveGuild DEF MemberCount, ChangeGuild
    <2>4. /\ rec \in GuildRecord /\ rec.members = guildMap[g].members
          /\ rec.channels = guildMap[g].channels /\ rec.threads = guildMap[g].threads
        BY <1>2, <2>2, <2>3 DEF GuildRecord
    <2> QED  BY <1>1, <1>2, <2>3, <2>4, GuildStep
<1>4. CASE ~Live(p)
    <2>1. UNCHANGED guildMap
        BY <1>4 DEF MemberCount, ChangeGuild
    <2>2. NewGuild \in GuildRecord
        BY DEF NewGuild, GuildRecord
    <2>3. PICK rec \in GuildRecord :
              HasGuild(At(p)) => rec = guildMap[At(p)]
        BY <1>2, <2>2 DEF IInv, CacheOK, HasGuild
    <2> QED  BY <1>1, <1>2, <2>1, <2>3, GuildStep
<1> QED  BY <1>3, <1>4

\* The methods that change a list without a map.
LEMMA SetItemsInv ==
    ASSUME IInv, NEW p \in Proc, NEW op, NEW S, SetItems(p, op, S),
           At(p) \in Guild, Live(p) => S \in SUBSET Item
    PROVE  IInv'
<1>1. /\ NextCall(p, op) /\ Return(p)
      /\ UNCHANGED <<listed, memberMap, channelMap, private, gateway, calls, events, torn>>
    BY DEF SetItems, Found
<1>2. todo[p] # <<>>
    BY <1>1 DEF NextCall
<1>3. CASE Live(p)
    <2>1. PICK g \in Guild : g = At(p)
        OBVIOUS
    <2>2. PICK rec : rec = [guildMap[g] EXCEPT !.items = S]
        OBVIOUS
    <2>3. guildMap' = [guildMap EXCEPT ![g] = rec] /\ HasGuild(g) /\ guildMap[g] \in GuildRecord
        BY <1>2, <1>3, <2>1, <2>2, LiveGuild DEF SetItems, ChangeGuild
    <2>4. /\ rec \in GuildRecord /\ rec.members = guildMap[g].members
          /\ rec.channels = guildMap[g].channels /\ rec.threads = guildMap[g].threads
        BY <1>3, <2>2, <2>3 DEF GuildRecord
    <2> QED  BY <1>1, <1>2, <2>3, <2>4, GuildStep
<1>4. CASE ~Live(p)
    <2>1. UNCHANGED guildMap
        BY <1>4 DEF SetItems, ChangeGuild
    <2>2. NewGuild \in GuildRecord
        BY DEF NewGuild, GuildRecord
    <2>3. PICK rec \in GuildRecord : HasGuild(At(p)) => rec = guildMap[At(p)]
        BY <2>2 DEF IInv, CacheOK, HasGuild
    <2> QED  BY <1>1, <1>2, <2>1, <2>3, GuildStep
<1> QED  BY <1>3, <1>4

\* The items of a guild that p looked up and that is in the cache.
LEMMA ItemsKnown ==
    ASSUME IInv, NEW p \in Proc, At(p) \in Guild, Live(p)
    PROVE  Items(p) \in SUBSET Item
BY LiveGuild DEF Items, GuildRecord

LEMMA ItemsInv ==
    ASSUME IInv, NEW p \in Proc,
           \/ RoleAdd(p) \/ RoleRemove(p) \/ EmojiAdd(p) \/ PresenceRemove(p)
           \/ voiceStateUpdate(p) \/ SetEmojis(p)
    PROVE  IInv'
<1>1. CASE RoleAdd(p)
    <2>1. NextCall(p, "RoleAdd")
        BY <1>1 DEF RoleAdd, SetItems, Found
    <2>2. At(p) \in Guild /\ Arg(p) \in Item
        BY <2>1, CallOf, CallKinds DEF IInv, ItemOps
    <2> QED  BY <1>1, <2>2, SetItemsInv, ItemsKnown DEF RoleAdd
<1>2. CASE RoleRemove(p)
    <2>1. NextCall(p, "RoleRemove")
        BY <1>2 DEF RoleRemove, SetItems, Found
    <2>2. At(p) \in Guild /\ Arg(p) \in Item
        BY <2>1, CallOf, CallKinds DEF IInv, ItemOps
    <2> QED  BY <1>2, <2>2, SetItemsInv, ItemsKnown DEF RoleRemove
<1>3. CASE EmojiAdd(p)
    <2>1. NextCall(p, "EmojiAdd")
        BY <1>3 DEF EmojiAdd, SetItems, Found
    <2>2. At(p) \in Guild /\ Arg(p) \in Item
        BY <2>1, CallOf, CallKinds DEF IInv, ItemOps
    <2> QED  BY <1>3, <2>2, SetItemsInv, ItemsKnown DEF EmojiAdd
<1>4. CASE PresenceRemove(p)
    <2>1. NextCall(p, "PresenceRemove")
        BY <1>4 DEF PresenceRemove, SetItems, Found
    <2>2. At(p) \in Guild /\ Arg(p) \in Item
        BY <2>1, CallOf, CallKinds DEF IInv, ItemOps
    <2> QED  BY <1>4, <2>2, SetItemsInv, ItemsKnown DEF PresenceRemove
<1>5. CASE voiceStateUpdate(p)
    <2>1. NextCall(p, "voiceStateUpdate")
        BY <1>5 DEF voiceStateUpdate, SetItems, Found
    <2>2. At(p) \in Guild /\ Arg(p).item \in Item
        BY <2>1, CallOf, CallKinds DEF IInv
    <2> QED  BY <1>5, <2>2, SetItemsInv, ItemsKnown DEF voiceStateUpdate
<1>6. CASE SetEmojis(p)
    <2>1. NextCall(p, "SetEmojis")
        BY <1>6 DEF SetEmojis, SetItems, Found
    <2>2. At(p) \in Guild /\ Arg(p) \in SUBSET Item
        BY <2>1, CallOf, CallKinds DEF IInv
    <2> QED  BY <1>6, <2>2, SetItemsInv DEF SetEmojis
<1> QED  BY <1>1, <1>2, <1>3, <1>4, <1>5, <1>6

LEMMA PresenceAddInv ==
    ASSUME IInv, NEW p \in Proc, PresenceAdd(p)
    PROVE  IInv'
<1>1. /\ NextCall(p, "PresenceAdd") /\ Return(p)
      /\ UNCHANGED <<listed, memberMap, channelMap, private, gateway, calls, events, torn>>
    BY DEF PresenceAdd
<1>2. todo[p] # <<>> /\ At(p) \in Guild /\ Arg(p) \in Item
    BY <1>1, CallOf, CallKinds DEF IInv, ItemOps
<1>3. CASE HasGuild(At(p))
    <2>1. PICK g \in Guild : g = At(p)
        BY <1>2
    <2>2. PICK rec : rec = [guildMap[g] EXCEPT !.items = @ \cup {Arg(p)}]
        OBVIOUS
    <2>3. HasGuild(g) /\ guildMap[g] \in GuildRecord
        BY <1>3, <2>1 DEF IInv, CacheOK, HasGuild
    <2>4. guildMap' = [guildMap EXCEPT ![g] = rec]
        BY <1>3, <2>1, <2>2, <2>3 DEF PresenceAdd, IInv, CacheOK
    <2>5. /\ rec \in GuildRecord /\ rec.members = guildMap[g].members
          /\ rec.channels = guildMap[g].channels /\ rec.threads = guildMap[g].threads
        BY <1>2, <2>2, <2>3 DEF GuildRecord
    <2> QED  BY <1>1, <1>2, <2>3, <2>4, <2>5, GuildStep
<1>4. CASE ~HasGuild(At(p))
    <2>1. UNCHANGED guildMap
        BY <1>4 DEF PresenceAdd
    <2>2. NewGuild \in GuildRecord
        BY DEF NewGuild, GuildRecord
    <2> QED  BY <1>1, <1>2, <1>4, <2>1, <2>2, GuildStep
<1> QED  BY <1>3, <1>4

\* A step that leaves every guild its channels and threads, and the map its
\* channels, has only the members to look at.
LEMMA ListsStep ==
    ASSUME IInv, NEW p \in Proc, todo[p] # <<>>, Return(p),
           CacheOK', MembersAgree',
           \A g \in Guild : HasGuild(g)' <=> HasGuild(g),
           \A g \in Guild : HasGuild(g) => ListOf(guildMap[g])' = ListOf(guildMap[g]),
           \A c \in Channel : HasChannel(c) => HasChannel(c)',
           torn' \in SUBSET Guild, torn \subseteq torn',
           UNCHANGED <<listed, gateway, calls, events>>
    PROVE  IInv'
<1>1. CallsOK' /\ Halves'
    BY ReturnKeeps DEF IInv
<1>2. GatewayOK' /\ BoundsOK'
    BY CacheStep DEF IInv
<1>3. Homes'
    BY DEF IInv, Homes, gateway
<1>4. ListedHere'
    BY DEF IInv, ListedHere, CacheOK
<1>5. ChannelsAgree'
    <2>1. \A g \in Guild : HasGuild(g) => ListOf(guildMap[g]) \subseteq Channel
        BY DEF IInv, CacheOK, GuildRecord, HasGuild, ListOf, Channel
    <2> QED  BY <2>1 DEF IInv, ChannelsAgree
<1> QED  BY <1>1, <1>2, <1>3, <1>4, <1>5 DEF IInv

\* An entry of the maps that is not None.
LEMMA Entries ==
    ASSUME CacheOK
    PROVE  /\ \A g \in Guild : HasGuild(g) => guildMap[g] \in GuildRecord
           /\ \A g \in Guild : memberMap[g] # None => memberMap[g] \in SUBSET User
           /\ \A c \in Channel : HasChannel(c) => channelMap[c] \in ChannelRecord
<1>1. \A g \in Guild : HasGuild(g) => guildMap[g] \in GuildRecord
    BY DEF CacheOK, HasGuild
<1>2. ASSUME NEW g \in Guild, memberMap[g] # None PROVE memberMap[g] \in SUBSET User
    <2>1. memberMap[g] \in (SUBSET User) \cup {None}
        BY DEF CacheOK
    <2> QED  BY <1>2, <2>1
<1>3. \A c \in Channel : HasChannel(c) => channelMap[c] \in ChannelRecord
    BY DEF CacheOK, HasChannel
<1> QED  BY <1>1, <1>2, <1>3

\* memberAdd keeps the members of the slice among those of the map.
LEMMA WithMembersStep ==
    ASSUME IInv, NEW g \in Guild, NEW S \in SUBSET User, NEW I \in SUBSET Item,
           WithMembers(g, S, I), torn' = torn
    PROVE  /\ guildMap' \in [Guild -> GuildRecord \cup {None}]
           /\ memberMap' \in [Guild -> (SUBSET User) \cup {None}]
           /\ MembersAgree'
           /\ \A h \in Guild : HasGuild(h)' <=> HasGuild(h)
           /\ \A h \in Guild : HasGuild(h) => ListOf(guildMap[h])' = ListOf(guildMap[h])
<1>1. CASE ~(HasGuild(g) /\ memberMap[g] # None)
    <2>1. UNCHANGED <<guildMap, memberMap>>
        BY <1>1 DEF WithMembers
    <2> QED  BY <2>1 DEF IInv, CacheOK, MembersAgree, HasGuild, ListOf
<1>2. CASE HasGuild(g) /\ memberMap[g] # None
    <2>1. PICK rec : rec = [guildMap[g] EXCEPT !.members = @ \cup (S \ memberMap[g]),
                                               !.items = @ \cup I]
        OBVIOUS
    <2>2. PICK M : M = memberMap[g] \cup S
        OBVIOUS
    <2>3. guildMap[g] \in GuildRecord /\ memberMap[g] \in SUBSET User
        BY <1>2, Entries DEF IInv
    <2>4. /\ rec \in GuildRecord /\ M \in SUBSET User
          /\ rec.members = guildMap[g].members \cup (S \ memberMap[g])
          /\ ListOf(rec) = ListOf(guildMap[g])
        BY <2>1, <2>2, <2>3 DEF GuildRecord, ListOf
    <2>5. rec # None /\ M # None
        BY <2>4, NoneAssumption
    <2>6. guildMap' = [guildMap EXCEPT ![g] = rec] /\ memberMap' = [memberMap EXCEPT ![g] = M]
        BY <1>2, <2>1, <2>2 DEF WithMembers, IInv, CacheOK
    <2>7. \A h \in Guild : /\ h # g => guildMap'[h] = guildMap[h] /\ memberMap'[h] = memberMap[h]
                           /\ h = g => guildMap'[h] = rec /\ memberMap'[h] = M
        BY <2>6 DEF IInv, CacheOK
    <2>8. /\ guildMap' \in [Guild -> GuildRecord \cup {None}]
          /\ memberMap' \in [Guild -> (SUBSET User) \cup {None}]
        BY <2>4, <2>6 DEF IInv, CacheOK
    <2>9. \A h \in Guild : HasGuild(h)' <=> HasGuild(h)
        BY <1>2, <2>5, <2>7 DEF HasGuild
    <2>10. \A h \in Guild : HasGuild(h) => ListOf(guildMap[h])' = ListOf(guildMap[h])
        BY <2>4, <2>7 DEF ListOf
    <2>11. MembersAgree'
        BY <2>2, <2>4, <2>5, <2>7, <2>9 DEF IInv, MembersAgree
    <2> QED  BY <2>8, <2>9, <2>10, <2>11
<1> QED  BY <1>1, <1>2

LEMMA MemberAddInv ==
    ASSUME IInv, NEW p \in Proc, MemberAdd(p)
    PROVE  IInv'
<1>1. /\ NextCall(p, "MemberAdd") /\ WithMembers(At(p), {Arg(p)}, {}) /\ Return(p)
      /\ UNCHANGED <<listed, channelMap, private, gateway, calls, events, torn>>
    BY DEF MemberAdd
<1>2. todo[p] # <<>> /\ At(p) \in Guild /\ {Arg(p)} \in SUBSET User /\ {} \in SUBSET Item
    BY <1>1, CallOf, CallKinds DEF IInv, MemberOps
<1>3. /\ guildMap' \in [Guild -> GuildRecord \cup {None}]
      /\ memberMap' \in [Guild -> (SUBSET User) \cup {None}]
      /\ MembersAgree'
      /\ \A h \in Guild : HasGuild(h)' <=> HasGuild(h)
      /\ \A h \in Guild : HasGuild(h) => ListOf(guildMap[h])' = ListOf(guildMap[h])
    BY <1>1, <1>2, WithMembersStep
<1>4. CacheOK' /\ torn' \in SUBSET Guild /\ \A c \in Channel : HasChannel(c)' <=> HasChannel(c)
    BY <1>1, <1>3 DEF IInv, CacheOK, BoundsOK, HasChannel
<1> QED  BY <1>1, <1>2, <1>3, <1>4, ListsStep

LEMMA MemberRemoveInv ==
    ASSUME IInv, NEW p \in Proc, MemberRemove(p)
    PROVE  IInv'
<1>1. /\ NextCall(p, "MemberRemove") /\ Return(p)
      /\ UNCHANGED <<listed, channelMap, private, gateway, calls, events>>
    BY DEF MemberRemove, Found
<1>2. todo[p] # <<>> /\ At(p) \in Guild /\ Arg(p) \in User
    BY <1>1, CallOf, CallKinds DEF IInv, MemberOps
<1>3. PICK g \in Guild, u \in User : g = At(p) /\ u = Arg(p)
    BY <1>2
<1>4. CASE ~HasMember(g, u)
    <2>1. UNCHANGED <<memberMap, guildMap, torn>>
        BY <1>3, <1>4 DEF MemberRemove
    <2>2. CacheOK' /\ MembersAgree' /\ torn' \in SUBSET Guild
        BY <1>1, <2>1 DEF IInv, CacheOK, MembersAgree, HasGuild, BoundsOK
    <2>3. /\ \A h \in Guild : HasGuild(h)' <=> HasGuild(h)
          /\ \A h \in Guild : HasGuild(h) => ListOf(guildMap[h])' = ListOf(guildMap[h])
          /\ \A c \in Channel : HasChannel(c)' <=> HasChannel(c)
        BY <1>1, <2>1 DEF HasGuild, HasChannel, ListOf
    <2> QED  BY <1>1, <1>2, <2>1, <2>2, <2>3, ListsStep
<1>5. CASE HasMember(g, u)
    <2>1. /\ memberMap' = [memberMap EXCEPT ![g] = @ \ {u}]
          /\ ChangeGuild(p, [guildMap[g] EXCEPT !.members = @ \ {u}])
          /\ Tear(p, g)
        BY <1>3, <1>5 DEF MemberRemove
    <2>2. memberMap[g] \in SUBSET User /\ memberMap[g] # None
        BY <1>5, Entries DEF HasMember, IInv
    <2>3. PICK M \in SUBSET User : M = memberMap[g] \ {u}
        BY <2>2
    <2>4. M # None /\ memberMap' = [memberMap EXCEPT ![g] = M]
        BY <2>1, <2>3, NoneAssumption
    <2>5. \A h \in Guild : /\ h # g => memberMap'[h] = memberMap[h]
                           /\ h = g => memberMap'[h] = M
        BY <2>4 DEF IInv, CacheOK
    <2>6. torn' \in SUBSET Guild /\ torn \subseteq torn' /\ (~Live(p) /\ HasGuild(g) => g \in torn')
        BY <2>1 DEF Tear, IInv, BoundsOK
    <2>7. CASE Live(p)
        <3>1. HasGuild(g) /\ guildMap[g] \in GuildRecord
            BY <1>3, <2>7, LiveGuild
        <3>2. PICK rec : rec = [guildMap[g] EXCEPT !.members = @ \ {u}]
            OBVIOUS
        <3>3. /\ rec \in GuildRecord /\ rec.members = guildMap[g].members \ {u}
              /\ ListOf(rec) = ListOf(guildMap[g])
            BY <3>1, <3>2 DEF GuildRecord, ListOf
        <3>4. rec # None /\ guildMap' = [guildMap EXCEPT ![g] = rec]
            BY <1>3, <2>1, <2>7, <3>2, <3>3, NoneAssumption DEF ChangeGuild
        <3>5. \A h \in Guild : /\ h # g => guildMap'[h] = guildMap[h]
                               /\ h = g => guildMap'[h] = rec
            BY <3>4 DEF IInv, CacheOK
        <3>6. CacheOK'
            BY <1>1, <2>4, <3>3, <3>4 DEF IInv, CacheOK
        <3>7. /\ \A h \in Guild : HasGuild(h)' <=> HasGuild(h)
              /\ \A h \in Guild : HasGuild(h) => ListOf(guildMap[h])' = ListOf(guildMap[h])
              /\ \A c \in Channel : HasChannel(c)' <=> HasChannel(c)
            BY <1>1, <3>1, <3>3, <3>4, <3>5 DEF HasGuild, HasChannel, ListOf
        <3>8. MembersAgree'
            BY <2>3, <2>4, <2>5, <2>6, <3>3, <3>5, <3>7 DEF IInv, MembersAgree
        <3> QED  BY <1>1, <1>2, <2>6, <3>6, <3>7, <3>8, ListsStep
    <2>8. CASE ~Live(p)
        <3>1. UNCHANGED guildMap
            BY <2>1, <2>8 DEF ChangeGuild
        <3>2. CacheOK'
            BY <1>1, <2>4, <3>1 DEF IInv, CacheOK
        <3>3. /\ \A h \in Guild : HasGuild(h)' <=> HasGuild(h)
              /\ \A h \in Guild : HasGuild(h) => ListOf(guildMap[h])' = ListOf(guildMap[h])
              /\ \A c \in Channel : HasChannel(c)' <=> HasChannel(c)
            BY <1>1, <3>1 DEF HasGuild, HasChannel, ListOf
        <3>4. MembersAgree'
            BY <2>5, <2>6, <2>8, <3>1, <3>3 DEF IInv, MembersAgree
        <3> QED  BY <1>1, <1>2, <2>6, <3>2, <3>3, <3>4, ListsStep
    <2> QED  BY <2>7, <2>8
<1> QED  BY <1>4, <1>5

\* A change of a channel p looked up keeps the map's channels.
LEMMA ChannelStep ==
    ASSUME IInv, NEW p \in Proc, NEW rec, ChangeChannel(p, rec),
           At(p) \in Channel,
           Live(p) /\ channelMap[At(p)] \in ChannelRecord => rec \in ChannelRecord
    PROVE  /\ channelMap' \in [Channel -> ChannelRecord \cup {None}]
           /\ \A c \in Channel : HasChannel(c)' <=> HasChannel(c)
<1>1. CASE Live(p)
    <2>1. HasChannel(At(p)) /\ channelMap[At(p)] \in ChannelRecord
        BY <1>1 DEF IInv, Live, Halves, CacheOK, HasChannel
    <2>2. rec \in ChannelRecord /\ rec # None
        BY <1>1, <2>1, NoneAssumption
    <2> QED  BY <1>1, <2>1, <2>2 DEF ChangeChannel, IInv, CacheOK, HasChannel
<1>2. CASE ~Live(p)
    BY <1>2 DEF ChangeChannel, IInv, CacheOK, HasChannel
<1> QED  BY <1>1, <1>2

\* The methods that change one channel only.
LEMMA OneChannelInv ==
    ASSUME IInv, NEW p \in Proc, NEW rec, ChangeChannel(p, rec),
           At(p) \in Channel,
           Live(p) /\ channelMap[At(p)] \in ChannelRecord => rec \in ChannelRecord,
           todo[p] # <<>>, Return(p),
           UNCHANGED <<guildMap, listed, memberMap, private, gateway, calls, events, torn>>
    PROVE  IInv'
<1>1. /\ channelMap' \in [Channel -> ChannelRecord \cup {None}]
      /\ \A c \in Channel : HasChannel(c)' <=> HasChannel(c)
    BY ChannelStep
<1>2. CacheOK' /\ MembersAgree' /\ torn' \in SUBSET Guild
    BY <1>1 DEF IInv, CacheOK, MembersAgree, HasGuild, BoundsOK
<1>3. /\ \A h \in Guild : HasGuild(h)' <=> HasGuild(h)
      /\ \A h \in Guild : HasGuild(h) => ListOf(guildMap[h])' = ListOf(guildMap[h])
    BY DEF HasGuild, ListOf
<1> QED  BY <1>1, <1>2, <1>3, ListsStep

LEMMA ThreadMemberUpdateInv ==
    ASSUME IInv, NEW p \in Proc, ThreadMemberUpdate(p)
    PROVE  IInv'
<1>1. /\ NextCall(p, "ThreadMemberUpdate") /\ Return(p)
      /\ UNCHANGED <<guildMap, listed, memberMap, private, gateway, calls, events, torn>>
    BY DEF ThreadMemberUpdate, Found
<1>2. todo[p] # <<>> /\ At(p) \in Channel
    BY <1>1, CallOf, CallKinds DEF IInv, Channel
<1>3. channelMap[At(p)] \in ChannelRecord =>
          [channelMap[At(p)] EXCEPT !.mine = TRUE] \in ChannelRecord
    BY DEF ChannelRecord
<1> QED  BY <1>1, <1>2, <1>3, OneChannelInv DEF ThreadMemberUpdate

LEMMA ThreadMembersUpdateInv ==
    ASSUME IInv, NEW p \in Proc, ThreadMembersUpdate(p)
    PROVE  IInv'
<1>1. /\ NextCall(p, "ThreadMembersUpdate") /\ Return(p)
      /\ UNCHANGED <<listed, private, gateway, calls, events, torn>>
    BY DEF ThreadMembersUpdate, Found
<1>2. /\ todo[p] # <<>> /\ At(p) \in Thread
      /\ Arg(p).added \in SUBSET User /\ Arg(p).removed \in SUBSET User
      /\ Arg(p).named \in SUBSET User /\ Arg(p).presences \in SUBSET Item
    BY <1>1, CallOf, CallKinds DEF IInv
<1>3. PICK added \in SUBSET User, removed \in SUBSET User, named \in SUBSET User,
           I \in SUBSET Item, g \in Guild :
          /\ added = Arg(p).added /\ removed = Arg(p).removed
          /\ named = Arg(p).named /\ I = Arg(p).presences /\ g = Home[At(p)]
    BY <1>2, ConstantsAssumption
<1>4. PICK rec : rec = [channelMap[At(p)] EXCEPT !.members =
              {u \in @ : ~\E r \in removed : At(p) = r} \cup added]
    OBVIOUS
<1>5. ChangeChannel(p, rec) /\ WithMembers(g, named, I)
    BY <1>3, <1>4 DEF ThreadMembersUpdate
<1>6. channelMap[At(p)] \in ChannelRecord => rec \in ChannelRecord
    BY <1>4 DEF ChannelRecord
<1>7. /\ channelMap' \in [Channel -> ChannelRecord \cup {None}]
      /\ \A c \in Channel : HasChannel(c)' <=> HasChannel(c)
    BY <1>2, <1>5, <1>6, ChannelStep DEF Channel
<1>8. /\ guildMap' \in [Guild -> GuildRecord \cup {None}]
      /\ memberMap' \in [Guild -> (SUBSET User) \cup {None}]
      /\ MembersAgree'
      /\ \A h \in Guild : HasGuild(h)' <=> HasGuild(h)
      /\ \A h \in Guild : HasGuild(h) => ListOf(guildMap[h])' = ListOf(guildMap[h])
    BY <1>1, <1>5, WithMembersStep
<1>9. CacheOK' /\ torn' \in SUBSET Guild
    BY <1>1, <1>7, <1>8 DEF IInv, CacheOK, BoundsOK
<1> QED  BY <1>1, <1>2, <1>7, <1>8, <1>9, ListsStep

\* MessageAdd and MessageRemove.
LEMMA NewestType ==
    ASSUME NEW list \in Seq(Message)
    PROVE  Newest(list) \in Seq(Message)
<1>1. MaxMessageCount \in Nat \ {0}
    BY ConstantsAssumption
<1>2. CASE Len(list) > MaxMessageCount
    <2>1. PICK k \in 1 .. Len(list) : k = Len(list) - MaxMessageCount + 1
        BY <1>1, <1>2
    <2>2. SubSeq(list, k, Len(list)) \in Seq(Message)
        BY <2>1
    <2> QED  BY <1>2, <2>1, <2>2 DEF Newest
<1> QED  BY <1>2 DEF Newest

LEMMA WithoutType ==
    ASSUME NEW list \in Seq(Message), NEW m
    PROVE  Without(m, list) \in Seq(Message)
<1>1. CASE Contains(m, list)
    <2>1. PICK i \in DOMAIN list : i = CHOOSE k \in DOMAIN list : list[k] = m
        BY <1>1 DEF Contains
    <2>2. i \in 1 .. Len(list) /\ Len(list) \in Nat
        BY <2>1
    <2>3. SubSeq(list, 1, i - 1) \in Seq(Message)
        BY <2>2, SubSeqProperties
    <2>4. SubSeq(list, i + 1, Len(list)) \in Seq(Message)
        BY <2>2, SubSeqProperties
    <2> QED  BY <1>1, <2>1, <2>3, <2>4 DEF Without
<1> QED  BY <1>1 DEF Without

LEMMA MessageAddInv ==
    ASSUME IInv, NEW p \in Proc, MessageAdd(p)
    PROVE  IInv'
<1>1. /\ NextCall(p, "MessageAdd") /\ Return(p)
      /\ UNCHANGED <<guildMap, listed, memberMap, private, gateway, calls, events, torn>>
    BY DEF MessageAdd, Found
<1>2. todo[p] # <<>> /\ At(p) \in Channel /\ Arg(p) \in Message
    BY <1>1, CallOf, CallKinds DEF IInv, MessageOps
<1>3. PICK old : old = channelMap[At(p)]
    OBVIOUS
<1>4. PICK list : list = IF Contains(Arg(p), old.messages) THEN old.messages
                         ELSE Newest(Append(old.messages, Arg(p)))
    OBVIOUS
<1>5. ChangeChannel(p, [old EXCEPT !.messages = list])
    BY <1>1, <1>3, <1>4 DEF MessageAdd
<1>6. old \in ChannelRecord => list \in Seq(Message)
    <2>1. old \in ChannelRecord => old.messages \in Seq(Message)
        BY DEF ChannelRecord
    <2>2. \A s \in Seq(Message) : Append(s, Arg(p)) \in Seq(Message)
        BY <1>2
    <2>3. \A s \in Seq(Message) : Newest(Append(s, Arg(p))) \in Seq(Message)
        BY <2>2, NewestType
    <2> QED  BY <1>4, <2>1, <2>3
<1>7. old \in ChannelRecord => [old EXCEPT !.messages = list] \in ChannelRecord
    BY <1>6 DEF ChannelRecord
<1> QED  BY <1>1, <1>2, <1>3, <1>5, <1>7, OneChannelInv

LEMMA MessageRemoveInv ==
    ASSUME IInv, NEW p \in Proc, MessageRemove(p)
    PROVE  IInv'
<1>1. /\ NextCall(p, "MessageRemove") /\ Return(p)
      /\ UNCHANGED <<guildMap, listed, memberMap, private, gateway, calls, events, torn>>
    BY DEF MessageRemove, Found
<1>2. todo[p] # <<>> /\ At(p) \in Channel /\ Arg(p) \in Message
    BY <1>1, CallOf, CallKinds DEF IInv, MessageOps
<1>3. PICK old : old = channelMap[At(p)]
    OBVIOUS
<1>4. PICK list : list = Without(Arg(p), old.messages)
    OBVIOUS
<1>5. ChangeChannel(p, [old EXCEPT !.messages = list])
    BY <1>1, <1>3, <1>4 DEF MessageRemove
<1>6. old \in ChannelRecord => list \in Seq(Message)
    BY <1>2, <1>4, WithoutType DEF ChannelRecord
<1>7. old \in ChannelRecord => [old EXCEPT !.messages = list] \in ChannelRecord
    BY <1>6 DEF ChannelRecord
<1> QED  BY <1>1, <1>2, <1>3, <1>5, <1>7, OneChannelInv

\* A guild that comes puts its channels into the map, and keeps the lists it
\* does not bring.
LEMMA MergeType ==
    ASSUME NEW new \in GuildGiven, NEW old \in GuildRecord
    PROVE  /\ Merge(new, old) \in GuildRecord
           /\ Merge(new, old).members = IF new.members = None THEN old.members ELSE new.members
           /\ ListOf(Merge(new, old)) \subseteq ListOf(old) \cup ChannelsOf(new)
<1>1. /\ new.members \in (SUBSET User) \cup {None} /\ new.count \in Int
      /\ new.channels \in (SUBSET Text) \cup {None} /\ new.threads \in (SUBSET Thread) \cup {None}
      /\ new.items \in (SUBSET Item) \cup {None}
    BY DEF GuildGiven
<1>2. /\ old.members \in SUBSET User /\ old.count \in Int
      /\ old.channels \in SUBSET Text /\ old.threads \in SUBSET Thread
      /\ old.items \in SUBSET Item
    BY DEF GuildRecord
<1>3. PICK members \in SUBSET User :
          members = IF new.members = None THEN old.members ELSE new.members
    BY <1>1, <1>2
<1>4. PICK count \in Int : count = IF new.count = 0 THEN old.count ELSE new.count
    BY <1>1, <1>2
<1>5. PICK channels \in SUBSET Text :
          channels = IF new.channels = None THEN old.channels ELSE new.channels
    BY <1>1, <1>2
<1>6. PICK threads \in SUBSET Thread :
          threads = IF new.threads = None THEN old.threads ELSE new.threads
    BY <1>1, <1>2
<1>7. PICK items \in SUBSET Item : items = IF new.items = None THEN old.items ELSE new.items
    BY <1>1, <1>2
<1>8. Merge(new, old) = [members |-> members, count |-> count, channels |-> channels,
                         threads |-> threads, items |-> items]
    BY <1>3, <1>4, <1>5, <1>6, <1>7 DEF Merge
<1>9. Merge(new, old) \in GuildRecord /\ Merge(new, old).members = members
    BY <1>8 DEF GuildRecord
<1>10. ListOf(Merge(new, old)) \subseteq ListOf(old) \cup ChannelsOf(new)
    BY <1>5, <1>6, <1>8 DEF ListOf, ChannelsOf
<1> QED  BY <1>3, <1>9, <1>10

LEMMA NewTypes ==
    /\ NewGuild \in GuildRecord /\ NewGuild.members = {} /\ ListOf(NewGuild) = {}
    /\ NewChannel \in ChannelRecord /\ NewGuild # None /\ NewChannel # None /\ {} # None
<1>1. NewGuild \in GuildRecord /\ NewGuild.members = {} /\ ListOf(NewGuild) = {}
    BY DEF NewGuild, GuildRecord, ListOf
<1>2. NewChannel \in ChannelRecord
    BY DEF NewChannel, ChannelRecord
<1>3. {} # None
    BY NoneAssumption
<1> QED  BY <1>1, <1>2, <1>3, NoneAssumption

LEMMA GuildAddInv ==
    ASSUME IInv, NEW p \in Proc, GuildAdd(p)
    PROVE  IInv'
<1>1. /\ NextCall(p, "GuildAdd")
      /\ UNCHANGED <<private, gateway, calls, events, torn>>
    BY DEF GuildAdd
<1>2. /\ todo[p] # <<>> /\ At(p) \in Guild /\ Arg(p) \in GuildGiven
      /\ \A c \in ChannelsOf(Arg(p)) : Home[c] = At(p)
    BY <1>1, CallOf, CallKinds DEF IInv
<1>3. PICK g \in Guild, new \in GuildGiven : g = At(p) /\ new = Arg(p)
    BY <1>2
<1>4. PICK S \in SUBSET Channel : S = ChannelsOf(new)
    BY <1>3 DEF GuildGiven, ChannelsOf, Channel
<1>5. PICK old \in GuildRecord : old = IF guildMap[g] = None THEN NewGuild ELSE guildMap[g]
    BY NewTypes, Entries DEF IInv, HasGuild
<1>6. PICK rec \in GuildRecord : rec = Merge(new, old)
    BY MergeType
<1>7. PICK M \in SUBSET User : M = IF new.members # None THEN new.members
                                   ELSE IF memberMap[g] = None THEN {} ELSE memberMap[g]
    BY Entries DEF IInv, GuildGiven
<1>8. /\ channelMap' = [c \in Channel |-> IF c \in S THEN NewChannel ELSE channelMap[c]]
      /\ memberMap' = [memberMap EXCEPT ![g] = M]
      /\ guildMap' = [guildMap EXCEPT ![g] = rec]
      /\ listed' = IF HasGuild(g) THEN listed ELSE listed \cup {g}
      /\ ReturnDetaching(p, S)
    BY <1>3, <1>4, <1>5, <1>6, <1>7 DEF GuildAdd, IInv, CacheOK
<1>9. rec # None /\ M # None
    BY NoneAssumption
<1>10. \A h \in Guild : /\ h # g => guildMap'[h] = guildMap[h] /\ memberMap'[h] = memberMap[h]
                        /\ h = g => guildMap'[h] = rec /\ memberMap'[h] = M
    BY <1>8 DEF IInv, CacheOK
<1>11. \A c \in Channel : /\ c \in S => channelMap'[c] = NewChannel
                          /\ c \notin S => channelMap'[c] = channelMap[c]
    BY <1>8
<1>12. CacheOK'
    <2>1. channelMap' \in [Channel -> ChannelRecord \cup {None}]
        BY <1>8, NewTypes DEF IInv, CacheOK
    <2>2. /\ guildMap' \in [Guild -> GuildRecord \cup {None}] /\ listed' \in SUBSET Guild
          /\ memberMap' \in [Guild -> (SUBSET User) \cup {None}]
        BY <1>8 DEF IInv, CacheOK
    <2> QED  BY <1>1, <2>1, <2>2 DEF IInv, CacheOK
<1>13. \A h \in Guild : HasGuild(h)' <=> HasGuild(h) \/ h = g
    BY <1>9, <1>10 DEF HasGuild
<1>14. \A c \in Channel : HasChannel(c)' <=> HasChannel(c) \/ c \in S
    BY <1>11, NewTypes DEF HasChannel
<1>15. CallsOK' /\ Halves'
    BY <1>2, <1>8, <1>13, <1>14, DetachKeeps DEF IInv
<1>16. ListOf(rec) \subseteq ListOf(old) \cup S
    BY <1>4, <1>6, MergeType
<1>17. Homes'
    <2>1. \A c \in ListOf(rec) : Home[c] = g
        BY <1>2, <1>3, <1>4, <1>5, <1>16, NewTypes DEF IInv, Homes, HasGuild
    <2>2. \A h \in Guild : HasGuild(h)' => \A c \in ListOf(guildMap[h])' : Home[c] = h
        BY <1>10, <1>13, <2>1 DEF IInv, Homes, ListOf
    <2> QED  BY <1>1, <2>2 DEF IInv, Homes, gateway
<1>18. ListedHere'
    BY <1>8, <1>13 DEF IInv, ListedHere, CacheOK
<1>19. MembersAgree'
    <2>1. rec.members = IF new.members = None THEN old.members ELSE new.members
        BY <1>6, MergeType
    <2>2. g \notin torn => rec.members \subseteq M
        BY <1>5, <1>7, <2>1, NewTypes DEF IInv, MembersAgree, HasGuild
    <2> QED  BY <1>1, <1>9, <1>10, <1>13, <2>2 DEF IInv, MembersAgree
<1>20. ChannelsAgree'
    <2>1. \A h \in Guild : HasGuild(h) => ListOf(guildMap[h]) \subseteq Channel
        BY DEF IInv, CacheOK, GuildRecord, HasGuild, ListOf, Channel
    <2>2. g \notin torn => \A c \in ListOf(rec) : HasChannel(c)'
        BY <1>5, <1>14, <1>16, <2>1, NewTypes DEF IInv, ChannelsAgree, HasGuild
    <2>3. \A h \in Guild : h # g => ListOf(guildMap[h])' = ListOf(guildMap[h])
        BY <1>10 DEF ListOf
    <2>4. ListOf(guildMap[g])' = ListOf(rec)
        BY <1>10 DEF ListOf
    <2> QED  BY <1>1, <1>13, <1>14, <2>1, <2>2, <2>3, <2>4 DEF IInv, ChannelsAgree
<1>21. GatewayOK' /\ BoundsOK'
    BY <1>1, CacheStep DEF IInv, BoundsOK
<1> QED  BY <1>12, <1>15, <1>17, <1>18, <1>19, <1>20, <1>21 DEF IInv

\* What is left of a guild in the maps goes with no call.
LEMMA GuildRemoveInv ==
    ASSUME IInv, NEW p \in Proc, GuildRemove(p)
    PROVE  IInv'
<1>1. /\ NextCall(p, "GuildRemove")
      /\ UNCHANGED <<memberMap, channelMap, private, gateway, calls, events, torn>>
    BY DEF GuildRemove, Found
<1>2. todo[p] # <<>> /\ At(p) \in Guild
    BY <1>1, CallOf, CallKinds DEF IInv
<1>3. PICK g \in Guild : g = At(p)
    BY <1>2
<1>4. /\ guildMap' = [guildMap EXCEPT ![g] = None] /\ listed' = listed \ {g}
      /\ ReturnDetaching(p, {g})
    BY <1>3 DEF GuildRemove
<1>5. \A h \in Guild : /\ h # g => guildMap'[h] = guildMap[h]
                       /\ h = g => guildMap'[h] = None
    BY <1>4 DEF IInv, CacheOK
<1>6. CacheOK'
    BY <1>1, <1>4 DEF IInv, CacheOK
<1>7. /\ \A h \in Guild : HasGuild(h)' <=> HasGuild(h) /\ h # g
      /\ \A c : HasChannel(c)' <=> HasChannel(c)
    BY <1>1, <1>5 DEF HasGuild, HasChannel
<1>8. CallsOK' /\ Halves'
    BY <1>2, <1>4, <1>7, DetachKeeps DEF IInv
<1>9. GatewayOK' /\ BoundsOK'
    BY <1>1, CacheStep DEF IInv, BoundsOK
<1>10. \A h \in Guild : h # g => ListOf(guildMap[h])' = ListOf(guildMap[h])
    BY <1>5 DEF ListOf
<1>11. Homes' /\ ListedHere'
    BY <1>1, <1>4, <1>7, <1>10 DEF IInv, Homes, ListedHere, CacheOK, gateway
<1>12. MembersAgree'
    BY <1>1, <1>5, <1>7 DEF IInv, MembersAgree
<1>13. ChannelsAgree'
    BY <1>1, <1>7, <1>10 DEF IInv, ChannelsAgree
<1> QED  BY <1>6, <1>8, <1>9, <1>11, <1>12, <1>13 DEF IInv

\* READY's guilds and private channels are new objects.
LEMMA onReadyInv ==
    ASSUME IInv, NEW p \in Proc, onReady(p)
    PROVE  IInv'
<1>1. /\ NextCall(p, "Ready")
      /\ UNCHANGED <<gateway, calls, events, torn>>
    BY DEF onReady
<1>2. todo[p] # <<>> /\ Arg(p).guilds \in SUBSET Guild /\ Arg(p).private \in SUBSET Private
    BY <1>1, CallOf, CallKinds DEF IInv
<1>3. PICK G \in SUBSET Guild, P \in SUBSET Private : G = Arg(p).guilds /\ P = Arg(p).private
    BY <1>2
<1>4. /\ listed' = G /\ private' = P
      /\ guildMap' = [g \in Guild |-> IF g \in G THEN NewGuild ELSE guildMap[g]]
      /\ memberMap' = [g \in Guild |-> IF g \in G THEN {} ELSE memberMap[g]]
      /\ channelMap' = [c \in Channel |-> IF c \in P THEN NewChannel ELSE channelMap[c]]
      /\ ReturnDetaching(p, G \cup P)
    BY <1>3 DEF onReady
<1>5. CacheOK'
    <2>1. guildMap' \in [Guild -> GuildRecord \cup {None}]
        BY <1>4, NewTypes DEF IInv, CacheOK
    <2>2. memberMap' \in [Guild -> (SUBSET User) \cup {None}]
        BY <1>4 DEF IInv, CacheOK
    <2>3. channelMap' \in [Channel -> ChannelRecord \cup {None}]
        BY <1>4, NewTypes DEF IInv, CacheOK
    <2> QED  BY <1>4, <2>1, <2>2, <2>3 DEF IInv, CacheOK
<1>6. \A g \in Guild : HasGuild(g)' <=> HasGuild(g) \/ g \in G
    BY <1>4, NewTypes DEF HasGuild
<1>7. \A c \in Channel : HasChannel(c)' <=> HasChannel(c) \/ c \in P
    BY <1>4, NewTypes DEF HasChannel
<1>8. CallsOK' /\ Halves'
    BY <1>2, <1>4, <1>6, <1>7, DetachKeeps DEF IInv
<1>9. GatewayOK' /\ BoundsOK'
    BY <1>1, CacheStep DEF IInv, BoundsOK
<1>10. \A g \in Guild : ListOf(guildMap[g])' = IF g \in G THEN {} ELSE ListOf(guildMap[g])
    BY <1>4, NewTypes DEF ListOf
<1>11. Homes'
    BY <1>1, <1>6, <1>10 DEF IInv, Homes, gateway
<1>12. ListedHere'
    BY <1>4, <1>6 DEF IInv, ListedHere
<1>13. MembersAgree'
    BY <1>1, <1>4, <1>6, NewTypes DEF IInv, MembersAgree
<1>14. ChannelsAgree'
    <2>1. \A g \in Guild : HasGuild(g) => ListOf(guildMap[g]) \subseteq Channel
        BY DEF IInv, CacheOK, GuildRecord, HasGuild, ListOf, Channel
    <2> QED  BY <1>1, <1>6, <1>7, <1>10, <2>1 DEF IInv, ChannelsAgree
<1> QED  BY <1>5, <1>8, <1>9, <1>11, <1>12, <1>13, <1>14 DEF IInv

\* A channel the map does not know is listed and put into the map at once.
LEMMA ChannelAddInv ==
    ASSUME IInv, NEW p \in Proc, ChannelAdd(p)
    PROVE  IInv'
<1>1. /\ NextCall(p, "ChannelAdd") /\ Return(p)
      /\ UNCHANGED <<listed, memberMap, gateway, calls, events, torn>>
    BY DEF ChannelAdd
<1>2. todo[p] # <<>> /\ At(p) \in Channel /\ Arg(p) \in BOOLEAN
    BY <1>1, CallOf, CallKinds DEF IInv
<1>3. PICK c \in Channel : c = At(p)
    BY <1>2
<1>4. \A old \in ChannelRecord :
          [NewChannel EXCEPT !.messages = old.messages, !.archived = Arg(p)] \in ChannelRecord
    BY <1>2 DEF NewChannel, ChannelRecord
<1>5. torn' \in SUBSET Guild /\ torn' = torn
    BY <1>1 DEF IInv, BoundsOK
<1>6. CASE UNCHANGED <<channelMap, guildMap, private>>
    <2>1. CacheOK' /\ MembersAgree'
        BY <1>1, <1>6 DEF IInv, CacheOK, MembersAgree, HasGuild
    <2>2. /\ \A h \in Guild : HasGuild(h)' <=> HasGuild(h)
          /\ \A h \in Guild : HasGuild(h) => ListOf(guildMap[h])' = ListOf(guildMap[h])
          /\ \A d \in Channel : HasChannel(d)' <=> HasChannel(d)
        BY <1>6 DEF HasGuild, HasChannel, ListOf
    <2> QED  BY <1>1, <1>2, <1>5, <2>1, <2>2, ListsStep
<1>7. ASSUME NEW rec \in ChannelRecord, channelMap' = [channelMap EXCEPT ![c] = rec],
             UNCHANGED guildMap, private' \in SUBSET Private
      PROVE  IInv'
    <2>1. rec # None
        BY NoneAssumption
    <2>2. CacheOK' /\ MembersAgree'
        BY <1>1, <1>7 DEF IInv, CacheOK, MembersAgree, HasGuild
    <2>3. /\ \A h \in Guild : HasGuild(h)' <=> HasGuild(h)
          /\ \A h \in Guild : HasGuild(h) => ListOf(guildMap[h])' = ListOf(guildMap[h])
        BY <1>7 DEF HasGuild, ListOf
    <2>4. \A d \in Channel : HasChannel(d) => HasChannel(d)'
        BY <1>7, <2>1 DEF HasChannel, IInv, CacheOK
    <2> QED  BY <1>1, <1>2, <1>5, <2>2, <2>3, <2>4, ListsStep
<1>8. ASSUME NEW rec \in ChannelRecord, channelMap' = [channelMap EXCEPT ![c] = rec],
             c \notin Private, HasGuild(Home[c]),
             guildMap' = IF c \in Thread
                         THEN [guildMap EXCEPT ![Home[c]].threads = @ \cup {c}]
                         ELSE [guildMap EXCEPT ![Home[c]].channels = @ \cup {c}],
             UNCHANGED private
      PROVE  IInv'
    <2>1. PICK g \in Guild : g = Home[c]
        BY <1>8, ConstantsAssumption DEF Channel
    <2>2. guildMap[g] \in GuildRecord
        BY <1>8, <2>1, Entries DEF IInv
    <2>3. PICK new : new = IF c \in Thread THEN [guildMap[g] EXCEPT !.threads = @ \cup {c}]
                           ELSE [guildMap[g] EXCEPT !.channels = @ \cup {c}]
        OBVIOUS
    <2>4. new \in GuildRecord /\ new.members = guildMap[g].members
        BY <1>8, <2>2, <2>3 DEF GuildRecord, Channel
    <2>5. ListOf(new) = ListOf(guildMap[g]) \cup {c}
        BY <2>2, <2>3 DEF GuildRecord, ListOf
    <2>6. guildMap' = [guildMap EXCEPT ![g] = new]
        BY <1>8, <2>1, <2>3 DEF IInv, CacheOK
    <2>7. new # None /\ rec # None
        BY <2>4, NoneAssumption
    <2>8. \A h \in Guild : /\ h # g => guildMap'[h] = guildMap[h]
                           /\ h = g => guildMap'[h] = new
        BY <2>6 DEF IInv, CacheOK
    <2>9. CacheOK'
        BY <1>1, <1>8, <2>4, <2>6 DEF IInv, CacheOK
    <2>10. \A h \in Guild : HasGuild(h)' <=> HasGuild(h)
        BY <1>8, <2>1, <2>7, <2>8 DEF HasGuild
    <2>11. \A d \in Channel : HasChannel(d)' <=> HasChannel(d) \/ d = c
        BY <1>8, <2>7 DEF HasChannel, IInv, CacheOK
    <2>12. CallsOK' /\ Halves'
        BY <1>1, <1>2, <2>10, <2>11, ReturnKeeps DEF IInv
    <2>13. GatewayOK' /\ BoundsOK'
        BY <1>1, <1>5, CacheStep DEF IInv
    <2>14. /\ \A h \in Guild : h # g => ListOf(guildMap[h])' = ListOf(guildMap[h])
           /\ ListOf(guildMap[g])' = ListOf(guildMap[g]) \cup {c}
        BY <2>5, <2>8 DEF ListOf
    <2>15. Homes'
        BY <1>1, <1>8, <2>1, <2>10, <2>14 DEF IInv, Homes, gateway
    <2>16. ListedHere' /\ MembersAgree'
        BY <1>1, <2>4, <2>8, <2>10 DEF IInv, ListedHere, MembersAgree, CacheOK
    <2>17. ChannelsAgree'
        <3>1. \A h \in Guild : HasGuild(h) => ListOf(guildMap[h]) \subseteq Channel
            BY DEF IInv, CacheOK, GuildRecord, HasGuild, ListOf, Channel
        <3> QED  BY <1>1, <2>10, <2>11, <2>14, <3>1 DEF IInv, ChannelsAgree
    <2> QED  BY <2>9, <2>12, <2>13, <2>15, <2>16, <2>17 DEF IInv
<1>9. CASE HasChannel(c)
    <2>1. PICK old \in ChannelRecord : old = channelMap[c]
        BY <1>9, Entries DEF IInv
    <2>2. PICK rec \in ChannelRecord :
              rec = [NewChannel EXCEPT !.messages = old.messages, !.archived = Arg(p)]
        BY <1>4
    <2>3. channelMap' = [channelMap EXCEPT ![c] = rec] /\ UNCHANGED <<guildMap, private>>
        BY <1>3, <1>9, <2>1, <2>2 DEF ChannelAdd, IInv, CacheOK
    <2> QED  BY <1>7, <2>3 DEF IInv, CacheOK
<1>10. CASE ~HasChannel(c)
    <2>1. PICK rec \in ChannelRecord :
              rec = [NewChannel EXCEPT !.messages = NewChannel.messages, !.archived = Arg(p)]
        BY <1>4, NewTypes
    <2>2. CASE c \in Private
        <3>1. channelMap' = [channelMap EXCEPT ![c] = rec] /\ UNCHANGED guildMap
            BY <1>3, <1>10, <2>1, <2>2 DEF ChannelAdd
        <3>2. private' \in SUBSET Private
            BY <1>3, <1>10, <2>2 DEF ChannelAdd, IInv, CacheOK
        <3> QED  BY <1>7, <3>1, <3>2
    <2>3. CASE c \notin Private /\ HasGuild(Home[c])
        <3>1. /\ channelMap' = [channelMap EXCEPT ![c] = rec] /\ UNCHANGED private
              /\ guildMap' = IF c \in Thread
                             THEN [guildMap EXCEPT ![Home[c]].threads = @ \cup {c}]
                             ELSE [guildMap EXCEPT ![Home[c]].channels = @ \cup {c}]
            BY <1>3, <1>10, <2>1, <2>3 DEF ChannelAdd
        <3> QED  BY <1>8, <2>3, <3>1
    <2>4. CASE c \notin Private /\ ~HasGuild(Home[c])
        BY <1>3, <1>6, <1>10, <2>4 DEF ChannelAdd
    <2> QED  BY <2>2, <2>3, <2>4
<1> QED  BY <1>9, <1>10

\* A step that takes channels of the guild p looked up out of the map: the
\* guild's lists lose them too, or the guild is torn.
LEMMA DropStep ==
    ASSUME IInv, NEW p \in Proc, todo[p] # <<>>, NEW g \in Guild, g = At(p),
           NEW rec, ChangeGuild(p, rec), Tear(p, g),
           Live(p) => /\ rec \in GuildRecord /\ rec.members = guildMap[g].members
                      /\ \A c \in ListOf(rec) : Home[c] = g,
           Live(p) /\ g \notin torn => \A c \in ListOf(rec) : HasChannel(c)',
           channelMap' \in [Channel -> ChannelRecord \cup {None}],
           NEW S, ReturnDetaching(p, S),
           \A c \in Channel : HasChannel(c) => HasChannel(c)' \/ c \in S,
           \A h \in Guild : HasGuild(h) /\ h # g =>
               \A c \in ListOf(guildMap[h]) : HasChannel(c) => HasChannel(c)',
           private' \in SUBSET Private,
           UNCHANGED <<listed, memberMap, gateway, calls, events>>
    PROVE  IInv'
<1>1. /\ torn' \in SUBSET Guild /\ torn \subseteq torn'
      /\ ~Live(p) /\ HasGuild(g) => g \in torn'
    BY DEF Tear, IInv, BoundsOK
<1>2. GatewayOK' /\ BoundsOK'
    BY <1>1, CacheStep DEF IInv
<1>3. CASE Live(p)
    <2>1. rec # None /\ guildMap' = [guildMap EXCEPT ![g] = rec] /\ HasGuild(g)
        BY <1>3, LiveGuild, NoneAssumption DEF ChangeGuild
    <2>2. \A h \in Guild : /\ h # g => guildMap'[h] = guildMap[h]
                           /\ h = g => guildMap'[h] = rec
        BY <2>1 DEF IInv, CacheOK
    <2>3. CacheOK'
        BY <1>3, <2>1 DEF IInv, CacheOK
    <2>4. \A h \in Guild : HasGuild(h)' <=> HasGuild(h)
        BY <2>1, <2>2 DEF HasGuild
    <2>5. CallsOK' /\ Halves'
        BY <2>4, DetachKeeps DEF IInv
    <2>6. /\ \A h \in Guild : h # g => ListOf(guildMap[h])' = ListOf(guildMap[h])
          /\ ListOf(guildMap[g])' = ListOf(rec)
        BY <2>2 DEF ListOf
    <2>7. Homes'
        BY <1>3, <2>4, <2>6 DEF IInv, Homes, gateway
    <2>8. ListedHere' /\ MembersAgree'
        BY <1>1, <1>3, <2>2, <2>4 DEF IInv, ListedHere, MembersAgree, CacheOK
    <2>9. ChannelsAgree'
        BY <1>1, <1>3, <2>4, <2>6 DEF IInv, ChannelsAgree
    <2> QED  BY <1>2, <2>3, <2>5, <2>7, <2>8, <2>9 DEF IInv
<1>4. CASE ~Live(p)
    <2>1. UNCHANGED guildMap
        BY <1>4 DEF ChangeGuild
    <2>2. CacheOK'
        BY <2>1 DEF IInv, CacheOK
    <2>3. /\ \A h \in Guild : HasGuild(h)' <=> HasGuild(h)
          /\ \A h \in Guild : ListOf(guildMap[h])' = ListOf(guildMap[h])
        BY <2>1 DEF HasGuild, ListOf
    <2>4. CallsOK' /\ Halves'
        BY <2>3, DetachKeeps DEF IInv
    <2>5. Homes' /\ ListedHere'
        BY <2>3 DEF IInv, Homes, ListedHere, CacheOK, gateway
    <2>6. MembersAgree'
        BY <1>1, <2>1, <2>3 DEF IInv, MembersAgree
    <2>7. ChannelsAgree'
        BY <1>1, <1>4, <2>3 DEF IInv, ChannelsAgree
    <2> QED  BY <1>2, <2>2, <2>4, <2>5, <2>6, <2>7 DEF IInv
<1> QED  BY <1>3, <1>4

LEMMA ChannelRemoveInv ==
    ASSUME IInv, NEW p \in Proc, ChannelRemove(p)
    PROVE  IInv'
<1>1. /\ NextCall(p, "ChannelRemove")
      /\ UNCHANGED <<listed, memberMap, gateway, calls, events>>
    BY DEF ChannelRemove, Found
<1>2. /\ todo[p] # <<>>
      /\ \/ Arg(p) \in Text \cup Thread /\ At(p) \in Guild /\ At(p) = Home[Arg(p)]
         \/ Arg(p) \in Private /\ At(p) = None
    BY <1>1, CallOf, CallKinds DEF IInv
<1>3. PICK c \in Channel : c = Arg(p)
    BY <1>2 DEF Channel
<1>4. channelMap' = [channelMap EXCEPT ![c] = None] /\ ReturnDetaching(p, {c})
    BY <1>3 DEF ChannelRemove
<1>5. /\ channelMap' \in [Channel -> ChannelRecord \cup {None}]
      /\ \A d : d # c => (HasChannel(d)' <=> HasChannel(d))
    BY <1>4 DEF IInv, CacheOK, HasChannel
<1>6. \A h \in Guild : HasGuild(h) => ListOf(guildMap[h]) \subseteq Text \cup Thread
    BY DEF IInv, CacheOK, GuildRecord, HasGuild, ListOf
<1>7. CASE c \in Private
    <2>1. private' = private \ {c} /\ UNCHANGED <<guildMap, torn>>
        BY <1>3, <1>7 DEF ChannelRemove
    <2>2. CacheOK' /\ MembersAgree' /\ ListedHere'
        BY <1>1, <1>5, <2>1 DEF IInv, CacheOK, MembersAgree, ListedHere, HasGuild
    <2>3. /\ \A h \in Guild : HasGuild(h)' <=> HasGuild(h)
          /\ \A h \in Guild : ListOf(guildMap[h])' = ListOf(guildMap[h])
        BY <2>1 DEF HasGuild, ListOf
    <2>4. CallsOK' /\ Halves'
        BY <1>2, <1>4, <1>5, <2>3, DetachKeeps DEF IInv
    <2>5. Homes' /\ GatewayOK' /\ BoundsOK'
        BY <1>1, <2>1, <2>3, CacheStep DEF IInv, Homes, gateway, BoundsOK
    <2>6. ChannelsAgree'
        BY <1>5, <1>6, <1>7, <2>1, <2>3, ConstantsAssumption DEF IInv, ChannelsAgree
    <2> QED  BY <2>2, <2>4, <2>5, <2>6 DEF IInv
<1>8. CASE c \notin Private
    <2>1. PICK g \in Guild : g = At(p) /\ g = Home[c] /\ c \in Text \cup Thread
        BY <1>2, <1>3, <1>8
    <2>2. PICK rec : rec = [guildMap[g] EXCEPT !.channels = @ \ {c}, !.threads = @ \ {c}]
        OBVIOUS
    <2>3. ChangeGuild(p, rec) /\ Tear(p, g) /\ UNCHANGED private
        BY <1>3, <1>8, <2>1, <2>2 DEF ChannelRemove
    <2>4. Live(p) => HasGuild(g) /\ guildMap[g] \in GuildRecord
        BY <2>1, LiveGuild
    <2>5. Live(p) => /\ rec \in GuildRecord /\ rec.members = guildMap[g].members
                     /\ ListOf(rec) = ListOf(guildMap[g]) \ {c}
        BY <2>2, <2>4 DEF GuildRecord, ListOf
    <2>6. Live(p) => \A d \in ListOf(rec) : Home[d] = g
        BY <2>4, <2>5 DEF IInv, Homes
    <2>7. Live(p) /\ g \notin torn => \A d \in ListOf(rec) : HasChannel(d)'
        BY <1>5, <2>4, <2>5 DEF IInv, ChannelsAgree
    <2>8. \A h \in Guild : HasGuild(h) /\ h # g =>
              \A d \in ListOf(guildMap[h]) : HasChannel(d) => HasChannel(d)'
        BY <1>5, <2>1 DEF IInv, Homes
    <2>9. private' \in SUBSET Private
        BY <2>3 DEF IInv, CacheOK
    <2> QED  BY <1>1, <1>2, <1>4, <1>5, <2>1, <2>3, <2>5, <2>6, <2>7, <2>8, <2>9, DropStep
<1> QED  BY <1>7, <1>8

LEMMA ThreadListSyncInv ==
    ASSUME IInv, NEW p \in Proc, ThreadListSync(p)
    PROVE  IInv'
<1>1. /\ NextCall(p, "ThreadListSync")
      /\ UNCHANGED <<listed, memberMap, private, gateway, calls, events>>
    BY DEF ThreadListSync, Found
<1>2. /\ todo[p] # <<>> /\ At(p) \in Guild
      /\ Arg(p).threads \in SUBSET Thread
      /\ \A t \in Arg(p).threads : Home[t] = At(p)
    BY <1>1, CallOf, CallKinds DEF IInv
<1>3. PICK g \in Guild, threads \in SUBSET Thread : g = At(p) /\ threads = Arg(p).threads
    BY <1>2
<1> DEFINE tls == Arg(p)
<1>4. PICK had \in SUBSET Thread : had = IF Live(p) THEN guildMap[g].threads ELSE oldThreads[p]
    BY <1>3, LiveGuild DEF IInv, CallsOK, GuildRecord
<1>5. PICK kept \in SUBSET had :
          kept = {t \in had : /\ channelMap[t] # None => ~channelMap[t].archived
                              /\ tls.ids # None /\ Parent[t] \notin tls.ids}
    OBVIOUS
<1>6. PICK rec : rec = [guildMap[g] EXCEPT !.threads = kept \cup threads]
    OBVIOUS
<1>7. PICK S : S = (had \ kept) \cup threads
    OBVIOUS
<1>8. /\ channelMap' = [c \in Channel |->
                IF c \in threads THEN [NewChannel EXCEPT !.mine = c \in tls.mine]
                ELSE IF c \in had \ kept THEN None
                ELSE IF c \in tls.mine /\ channelMap[c] # None
                     THEN [channelMap[c] EXCEPT !.mine = TRUE]
                ELSE channelMap[c]]
      /\ ChangeGuild(p, rec) /\ Tear(p, g) /\ ReturnDetaching(p, S)
    BY <1>3, <1>4, <1>5, <1>6, <1>7 DEF ThreadListSync
<1> HIDE DEF tls
<1>9. \A rc \in ChannelRecord : /\ [rc EXCEPT !.mine = TRUE] \in ChannelRecord
                                  /\ [rc EXCEPT !.mine = FALSE] \in ChannelRecord
    BY DEF ChannelRecord
<1>10. /\ [NewChannel EXCEPT !.mine = TRUE] \in ChannelRecord
      /\ [NewChannel EXCEPT !.mine = FALSE] \in ChannelRecord
    BY <1>9, NewTypes
<1>11. ASSUME NEW c \in Channel
       PROVE  /\ channelMap'[c] \in ChannelRecord \cup {None}
              /\ c \in threads => channelMap'[c] # None
              /\ HasChannel(c) /\ c \notin had \ kept => channelMap'[c] # None
    <2>1. CASE c \in threads
        <3>1. channelMap'[c] = [NewChannel EXCEPT !.mine = c \in tls.mine]
            BY <1>8, <2>1
        <3>2. CASE c \in tls.mine
            <4>1. (c \in tls.mine) = TRUE
                BY <3>2, Zenon
            <4>2. channelMap'[c] = [NewChannel EXCEPT !.mine = TRUE]
                BY <3>1, <4>1, Zenon
            <4> QED  BY <1>10, <4>2, NoneAssumption
        <3>3. CASE c \notin tls.mine
            <4>1. (c \in tls.mine) = FALSE
                BY <3>3
            <4>2. channelMap'[c] = [NewChannel EXCEPT !.mine = FALSE]
                BY <3>1, <4>1, Zenon
            <4> QED  BY <1>10, <4>2, NoneAssumption
        <3> QED  BY <3>2, <3>3
    <2>2. CASE c \notin threads /\ c \in had \ kept
        BY <1>8, <2>2
    <2>3. CASE c \notin threads /\ c \notin had \ kept /\ c \in tls.mine /\ channelMap[c] # None
        <3>1. channelMap'[c] = [channelMap[c] EXCEPT !.mine = TRUE]
            BY <1>8, <2>3
        <3> QED  BY ZenonT(30), <1>9, <2>3, <3>1, Entries, NoneAssumption DEF IInv, HasChannel
    <2>4. CASE c \notin threads /\ c \notin had \ kept /\ ~(c \in tls.mine /\ channelMap[c] # None)
        <3>1. channelMap'[c] = channelMap[c]
            BY <1>8, <2>4
        <3> QED  BY <2>4, <3>1 DEF IInv, CacheOK, HasChannel
    <2> QED  BY <2>1, <2>2, <2>3, <2>4
<1>12. channelMap' \in [Channel -> ChannelRecord \cup {None}]
    BY <1>8, <1>11
<1>13. /\ \A c \in threads : HasChannel(c)'
       /\ \A c \in Channel : HasChannel(c) => HasChannel(c)' \/ c \in had \ kept
    BY <1>11 DEF HasChannel, Channel
<1>14. \A t \in had : Home[t] = g
    BY <1>3, <1>4, LiveGuild DEF IInv, Homes, Halves, ListOf
<1>15. Live(p) => HasGuild(g) /\ guildMap[g] \in GuildRecord /\ had = guildMap[g].threads
    BY <1>3, <1>4, LiveGuild
<1>16. Live(p) => /\ rec \in GuildRecord /\ rec.members = guildMap[g].members
                  /\ ListOf(rec) = guildMap[g].channels \cup kept \cup threads
    BY <1>6, <1>15 DEF GuildRecord, ListOf
<1>17. Live(p) => \A c \in ListOf(rec) : Home[c] = g
    BY <1>2, <1>3, <1>14, <1>15, <1>16 DEF IInv, Homes, ListOf
<1>18. Live(p) /\ g \notin torn => \A c \in ListOf(rec) : HasChannel(c)'
    <2>1. Live(p) => guildMap[g].channels \subseteq Text
        BY <1>15 DEF GuildRecord
    <2>2. Live(p) /\ g \notin torn => \A c \in guildMap[g].channels \cup kept : HasChannel(c)
        BY <1>15 DEF IInv, ChannelsAgree, ListOf
    <2>3. Live(p) => \A c \in guildMap[g].channels \cup kept : c \in Channel /\ c \notin had \ kept
        BY <2>1, ConstantsAssumption DEF Channel
    <2> QED  BY <1>13, <1>16, <2>2, <2>3
<1>19. \A h \in Guild : HasGuild(h) /\ h # g =>
           \A c \in ListOf(guildMap[h]) : HasChannel(c) => HasChannel(c)'
    <2>1. \A h \in Guild : HasGuild(h) => ListOf(guildMap[h]) \subseteq Channel
        BY DEF IInv, CacheOK, GuildRecord, HasGuild, ListOf, Channel
    <2> QED  BY <1>13, <1>14, <2>1 DEF IInv, Homes
<1>20. /\ private' \in SUBSET Private
       /\ \A c \in Channel : HasChannel(c) => HasChannel(c)' \/ c \in S
    BY <1>1, <1>7, <1>13 DEF IInv, CacheOK
<1> QED  BY <1>1, <1>2, <1>3, <1>8, <1>12, <1>16, <1>17, <1>18, <1>19, <1>20, DropStep

-----------------------------------------------------------------------------
(* The steps of the gateway and of the program.                             *)

\* The calls an event of a guild or of a channel makes.
LEMMA GuildCalls ==
    ASSUME NEW g \in Guild
    PROVE  /\ Op("GuildRemove", g, None) \in Call
           /\ Op("MemberCount", g, 1) \in Call /\ Op("MemberCount", g, -1) \in Call
           /\ \A u \in User, op \in MemberOps : Op(op, g, u) \in Call
           /\ \A i \in Item, op \in ItemOps : Op(op, g, i) \in Call
           /\ \A v \in [item: Item, joins: BOOLEAN] : Op("voiceStateUpdate", g, v) \in Call
           /\ \A E \in SUBSET Item : Op("SetEmojis", g, E) \in Call
           /\ \A new \in GuildGiven :
                  (\A c \in ChannelsOf(new) : Home[c] = g) => Op("GuildAdd", g, new) \in Call
           /\ \A tls \in [ids: (SUBSET Text) \cup {None}, threads: SUBSET Thread,
                          mine: SUBSET Thread] :
                  (\A t \in tls.threads : Home[t] = g) => Op("ThreadListSync", g, tls) \in Call
<1>1. Op("GuildRemove", g, None) \in Call
    BY DEF Op, Call
<1>2. Op("MemberCount", g, 1) \in Call /\ Op("MemberCount", g, -1) \in Call
    BY DEF Op, Call
<1>3. \A u \in User, op \in MemberOps : Op(op, g, u) \in Call
    BY DEF Op, Call
<1>4. \A i \in Item, op \in ItemOps : Op(op, g, i) \in Call
    BY DEF Op, Call
<1>5. \A v \in [item: Item, joins: BOOLEAN] : Op("voiceStateUpdate", g, v) \in Call
    BY DEF Op, Call
<1>6. \A E \in SUBSET Item : Op("SetEmojis", g, E) \in Call
    BY DEF Op, Call
<1>7. \A new \in GuildGiven :
          (\A c \in ChannelsOf(new) : Home[c] = g) => Op("GuildAdd", g, new) \in Call
    BY DEF Op, Call
<1>8. \A tls \in [ids: (SUBSET Text) \cup {None}, threads: SUBSET Thread, mine: SUBSET Thread] :
          (\A t \in tls.threads : Home[t] = g) => Op("ThreadListSync", g, tls) \in Call
    BY DEF Op, Call
<1> QED  BY <1>1, <1>2, <1>3, <1>4, <1>5, <1>6, <1>7, <1>8

LEMMA ChannelCalls ==
    /\ \A c \in Channel, b \in BOOLEAN : Op("ChannelAdd", c, b) \in Call
    /\ \A c \in Text \cup Thread : Op("ChannelRemove", Home[c], c) \in Call
    /\ \A c \in Private : Op("ChannelRemove", None, c) \in Call
    /\ \A m \in Message, op \in MessageOps : Op(op, In[m], m) \in Call
    /\ \A t \in Thread : Op("ThreadMemberUpdate", t, None) \in Call
    /\ \A t \in Thread, a \in [added: SUBSET User, removed: SUBSET User,
                               named: SUBSET User, presences: SUBSET Item] :
           Op("ThreadMembersUpdate", t, a) \in Call
    /\ \A r \in [guilds: SUBSET Guild, private: {{}, Private}] : Op("Ready", None, r) \in Call
<1>1. \A c \in Channel, b \in BOOLEAN : Op("ChannelAdd", c, b) \in Call
    BY DEF Op, Call
<1>2. \A c \in Text \cup Thread : Op("ChannelRemove", Home[c], c) \in Call
    BY ConstantsAssumption DEF Op, Call
<1>3. \A c \in Private : Op("ChannelRemove", None, c) \in Call
    BY DEF Op, Call
<1>4. \A m \in Message, op \in MessageOps : Op(op, In[m], m) \in Call
    BY ConstantsAssumption DEF Op, Call
<1>5. \A t \in Thread : Op("ThreadMemberUpdate", t, None) \in Call
    BY DEF Op, Call
<1>6. \A t \in Thread, a \in [added: SUBSET User, removed: SUBSET User,
                              named: SUBSET User, presences: SUBSET Item] :
          Op("ThreadMembersUpdate", t, a) \in Call
    BY DEF Op, Call
<1>7. \A r \in [guilds: SUBSET Guild, private: {{}, Private}] : Op("Ready", None, r) \in Call
    BY DEF Op, Call
<1> QED  BY <1>1, <1>2, <1>3, <1>4, <1>5, <1>6, <1>7

LEMMA OneCall ==
    ASSUME NEW x \in Call, NEW kind
    PROVE  <<x>> \in Seq(Call) /\ Tracks(kind, <<x>>) \in Seq(Call)
BY DEF Tracks

LEMMA TwoCalls ==
    ASSUME NEW s \in Seq(Call), NEW t \in Seq(Call)
    PROVE  s \o t \in Seq(Call)
OBVIOUS

\* An event gives the loop its calls; what it changes is at the gateway.
LEMMA TellKeeps ==
    ASSUME IInv, NEW ops \in Seq(Call),
           todo[loop] = <<>>, events < MaxEvents, events' = events + 1,
           todo' = [todo EXCEPT ![loop] = ops] \/ UNCHANGED todo,
           UNCHANGED <<cache, looked, oldThreads, calls, torn>>,
           GatewayOK', \A g \in Guild : \A c \in ListOf(truth'[g]) : Home[c] = g
    PROVE  IInv'
<1>1. UNCHANGED <<guildMap, listed, memberMap, channelMap, private>>
    BY DEF cache
<1>2. CallsOK'
    BY DEF IInv, CallsOK
<1>3. BoundsOK'
    BY ConstantsAssumption DEF IInv, BoundsOK
<1>4. \A q \in Proc : q # loop => todo'[q] = todo[q]
    BY DEF IInv, CallsOK
<1>5. looked[loop] = "no" /\ oldThreads[loop] = {}
    BY DEF IInv, CallsOK, Halves, Proc
<1>6. Halves'
    <2>1. \A q \in Proc : q # loop => At(q)' = At(q)
        BY <1>4 DEF At
    <2> QED  BY <1>1, <1>4, <1>5, <2>1 DEF IInv, Halves, HasGuild, HasChannel
<1>7. CacheOK' /\ Homes' /\ ListedHere' /\ MembersAgree'
    BY <1>1 DEF IInv, CacheOK, Homes, ListedHere, MembersAgree, HasGuild
<1>8. ChannelsAgree'
    BY <1>1 DEF IInv, ChannelsAgree, HasGuild, HasChannel
<1> QED  BY <1>2, <1>3, <1>6, <1>7, <1>8 DEF IInv

LEMMA GuildEventInv ==
    ASSUME IInv, NEW g \in Guild, NEW rec \in GuildRecord,
           \A c \in ListOf(rec) : Home[c] = g,
           NEW ops \in Seq(Call), GuildEvent(g, rec, ops)
    PROVE  IInv'
<1>1. /\ truth' = [truth EXCEPT ![g] = rec]
      /\ UNCHANGED <<joined, messages, heard, online>>
    BY DEF GuildEvent
<1>2. /\ todo[loop] = <<>> /\ events < MaxEvents /\ events' = events + 1
      /\ todo' = [todo EXCEPT ![loop] = ops] \/ UNCHANGED todo
      /\ UNCHANGED <<cache, looked, oldThreads, calls, torn>>
    BY DEF GuildEvent, Tell
<1>3. GatewayOK'
    BY <1>1 DEF IInv, GatewayOK
<1>4. \A h \in Guild : \A c \in ListOf(truth'[h]) : Home[c] = h
    BY <1>1 DEF IInv, GatewayOK, Homes
<1> QED  BY <1>2, <1>3, <1>4, TellKeeps

\* What is true of a guild, with another list of members or of items.
LEMMA TruthTypes ==
    ASSUME IInv, NEW g \in Guild
    PROVE  /\ truth[g] \in GuildRecord /\ \A c \in ListOf(truth[g]) : Home[c] = g
           /\ \A S \in SUBSET User :
                 /\ [truth[g] EXCEPT !.members = S] \in GuildRecord
                 /\ \A c \in ListOf([truth[g] EXCEPT !.members = S]) : Home[c] = g
           /\ \A S \in SUBSET Item :
                 /\ [truth[g] EXCEPT !.items = S] \in GuildRecord
                 /\ \A c \in ListOf([truth[g] EXCEPT !.items = S]) : Home[c] = g
<1>1. truth[g] \in GuildRecord /\ \A c \in ListOf(truth[g]) : Home[c] = g
    BY DEF IInv, GatewayOK, Homes
<1>2. ASSUME NEW S \in SUBSET User
      PROVE  /\ [truth[g] EXCEPT !.members = S] \in GuildRecord
             /\ ListOf([truth[g] EXCEPT !.members = S]) = ListOf(truth[g])
    BY <1>1 DEF GuildRecord, ListOf
<1>3. ASSUME NEW S \in SUBSET Item
      PROVE  /\ [truth[g] EXCEPT !.items = S] \in GuildRecord
             /\ ListOf([truth[g] EXCEPT !.items = S]) = ListOf(truth[g])
    BY <1>1 DEF GuildRecord, ListOf
<1> QED  BY <1>1, <1>2, <1>3

\* The events of members and items.
LEMMA MemberEventsInv ==
    ASSUME IInv, NEW g \in Guild, NEW u \in User,
           \/ GuildMemberAdd(g, u) \/ GuildMemberRemove(g, u) \/ GuildMemberUpdate(g, u)
           \/ \E i \in Item, offline \in BOOLEAN : PresenceUpdate(g, u, i, offline)
    PROVE  IInv'
<1>1. truth[g].members \in SUBSET User /\ truth[g].items \in SUBSET Item
    BY TruthTypes DEF GuildRecord
<1>2. /\ <<Op("MemberAdd", g, u)>> \in Seq(Call) /\ <<Op("MemberRemove", g, u)>> \in Seq(Call)
      /\ <<Op("MemberCount", g, 1)>> \in Seq(Call) /\ <<Op("MemberCount", g, -1)>> \in Seq(Call)
      /\ \A i \in Item : <<Op("PresenceAdd", g, i)>> \in Seq(Call)
    BY GuildCalls, OneCall DEF MemberOps, ItemOps
<1>3. /\ Tracks("members", <<Op("MemberAdd", g, u)>>) \in Seq(Call)
      /\ Tracks("members", <<Op("MemberRemove", g, u)>>) \in Seq(Call)
      /\ \A i \in Item : Tracks("items", <<Op("PresenceAdd", g, i)>>) \in Seq(Call)
    BY <1>2 DEF Tracks
<1>4. CASE GuildMemberAdd(g, u)
    <2>1. PICK S \in SUBSET User : S = truth[g].members \cup {u}
        BY <1>1
    <2>2. PICK ops \in Seq(Call) :
              ops = <<Op("MemberCount", g, 1)>> \o Tracks("members", <<Op("MemberAdd", g, u)>>)
        BY <1>2, <1>3, TwoCalls
    <2>3. GuildEvent(g, [truth[g] EXCEPT !.members = S], ops)
        BY <1>4, <2>1, <2>2 DEF GuildMemberAdd, MemberEvent
    <2> QED  BY <2>3, TruthTypes, GuildEventInv
<1>5. CASE GuildMemberRemove(g, u)
    <2>1. PICK S \in SUBSET User : S = truth[g].members \ {u}
        BY <1>1
    <2>2. PICK ops \in Seq(Call) :
              ops = <<Op("MemberCount", g, -1)>> \o Tracks("members", <<Op("MemberRemove", g, u)>>)
        BY <1>2, <1>3, TwoCalls
    <2>3. GuildEvent(g, [truth[g] EXCEPT !.members = S], ops)
        BY <1>5, <2>1, <2>2 DEF GuildMemberRemove, MemberEvent
    <2> QED  BY <2>3, TruthTypes, GuildEventInv
<1>6. CASE GuildMemberUpdate(g, u)
    BY <1>3, <1>6, TruthTypes, GuildEventInv DEF GuildMemberUpdate, MemberEvent
<1>7. ASSUME NEW i \in Item, NEW offline \in BOOLEAN, PresenceUpdate(g, u, i, offline)
      PROVE  IInv'
    <2>1. PICK S \in SUBSET Item : S = truth[g].items \cup {i}
        BY <1>1
    <2> DEFINE adds == IF offline THEN <<>> ELSE Tracks("members", <<Op("MemberAdd", g, u)>>)
    <2>2. adds \in Seq(Call)
        BY <1>3
    <2> HIDE DEF adds
    <2>3. PICK ops \in Seq(Call) : ops = Tracks("items", <<Op("PresenceAdd", g, i)>>) \o adds
        BY <1>3, <2>2, TwoCalls
    <2>4. GuildEvent(g, [truth[g] EXCEPT !.items = S], ops)
        BY <1>7, <2>1, <2>3 DEF PresenceUpdate, MemberEvent, adds
    <2> QED  BY <2>4, TruthTypes, GuildEventInv
<1> QED  BY <1>4, <1>5, <1>6, <1>7

LEMMA ItemEventsInv ==
    ASSUME IInv, NEW g \in Guild,
           \/ GuildEmojisUpdate(g)
           \/ \E i \in Item :
                 \/ GuildRoleCreate(g, i) \/ GuildRoleDelete(g, i)
                 \/ \E joins \in BOOLEAN : VoiceStateUpdate(g, i, joins)
    PROVE  IInv'
<1>1. truth[g].items \in SUBSET Item
    BY TruthTypes DEF GuildRecord
<1>2. CASE GuildEmojisUpdate(g)
    <2>1. PICK E \in SUBSET Item :
              GuildChange(g, [truth[g] EXCEPT !.items = E],
                          Tracks("items", <<Op("SetEmojis", g, E)>>))
        BY <1>2 DEF GuildEmojisUpdate
    <2>2. Tracks("items", <<Op("SetEmojis", g, E)>>) \in Seq(Call)
        BY GuildCalls, OneCall
    <2> QED  BY <2>1, <2>2, TruthTypes, GuildEventInv DEF GuildChange
<1>3. ASSUME NEW i \in Item, GuildRoleCreate(g, i) PROVE IInv'
    <2>1. PICK S \in SUBSET Item : S = truth[g].items \cup {i}
        BY <1>1
    <2>2. Tracks("items", <<Op("RoleAdd", g, i)>>) \in Seq(Call)
        BY GuildCalls, OneCall DEF ItemOps
    <2>3. GuildEvent(g, [truth[g] EXCEPT !.items = S], Tracks("items", <<Op("RoleAdd", g, i)>>))
        BY <1>3, <2>1 DEF GuildRoleCreate, GuildChange
    <2> QED  BY <2>2, <2>3, TruthTypes, GuildEventInv
<1>4. ASSUME NEW i \in Item, GuildRoleDelete(g, i) PROVE IInv'
    <2>1. PICK S \in SUBSET Item : S = truth[g].items \ {i}
        BY <1>1
    <2>2. Tracks("items", <<Op("RoleRemove", g, i)>>) \in Seq(Call)
        BY GuildCalls, OneCall DEF ItemOps
    <2>3. GuildEvent(g, [truth[g] EXCEPT !.items = S], Tracks("items", <<Op("RoleRemove", g, i)>>))
        BY <1>4, <2>1 DEF GuildRoleDelete, GuildChange
    <2> QED  BY <2>2, <2>3, TruthTypes, GuildEventInv
<1>5. ASSUME NEW i \in Item, NEW joins \in BOOLEAN, VoiceStateUpdate(g, i, joins) PROVE IInv'
    <2>1. PICK S \in SUBSET Item : S = IF joins THEN truth[g].items \cup {i} ELSE truth[g].items \ {i}
        BY <1>1
    <2>2. Op("voiceStateUpdate", g, [item |-> i, joins |-> joins]) \in Call
        BY GuildCalls
    <2>3. PICK ops \in Seq(Call) : ops =
              Tracks("items", <<Op("voiceStateUpdate", g, [item |-> i, joins |-> joins])>>)
        BY <2>2, OneCall
    <2>4. GuildEvent(g, [truth[g] EXCEPT !.items = S], ops)
        BY <1>5, <2>1, <2>3 DEF VoiceStateUpdate, GuildChange
    <2> QED  BY <2>4, TruthTypes, GuildEventInv
<1> QED  BY <1>2, <1>3, <1>4, <1>5

\* Events that change no guild.
LEMMA OtherEventInv ==
    ASSUME IInv, NEW ops \in Seq(Call),
           todo[loop] = <<>>, events < MaxEvents, events' = events + 1,
           todo' = [todo EXCEPT ![loop] = ops] \/ UNCHANGED todo,
           UNCHANGED <<cache, looked, oldThreads, calls, torn, truth>>,
           joined' \in SUBSET Guild, heard' \in SUBSET joined',
           messages' \in [Channel -> Seq(Message)], online' \in BOOLEAN
    PROVE  IInv'
<1>1. GatewayOK'
    BY DEF IInv, GatewayOK
<1>2. \A g \in Guild : \A c \in ListOf(truth'[g]) : Home[c] = g
    BY DEF IInv, Homes
<1> QED  BY <1>1, <1>2, TellKeeps

LEMMA SessionEventsInv ==
    ASSUME IInv, Ready \/ SessionLost
    PROVE  IInv'
<1>1. /\ joined \in SUBSET Guild /\ heard \in SUBSET joined
      /\ messages \in [Channel -> Seq(Message)]
    BY DEF IInv, GatewayOK
<1>2. CASE Ready
    <2>1. PICK P \in {{}, Private} :
              Tell(TRUE, <<Op("Ready", None, [guilds |-> joined, private |-> P])>>)
        BY <1>2 DEF Ready
    <2>2. Op("Ready", None, [guilds |-> joined, private |-> P]) \in Call
        BY <1>1, ChannelCalls
    <2>3. PICK ops \in Seq(Call) :
              ops = <<Op("Ready", None, [guilds |-> joined, private |-> P])>>
        BY <2>2, OneCall
    <2>4. /\ todo[loop] = <<>> /\ events < MaxEvents /\ events' = events + 1
          /\ todo' = [todo EXCEPT ![loop] = ops]
          /\ UNCHANGED <<cache, looked, oldThreads, calls, torn>>
        BY <2>1, <2>3 DEF Tell
    <2> QED  BY <1>1, <1>2, <2>4, OtherEventInv DEF Ready
<1>3. CASE SessionLost
    <2>1. /\ todo[loop] = <<>> /\ events < MaxEvents /\ events' = events + 1
          /\ UNCHANGED todo
          /\ UNCHANGED <<cache, looked, oldThreads, calls, torn>>
        BY <1>3 DEF SessionLost, Tell
    <2>2. <<>> \in Seq(Call)
        OBVIOUS
    <2> QED  BY <1>1, <1>3, <2>1, <2>2, OtherEventInv DEF SessionLost
<1> QED  BY <1>2, <1>3

LEMMA GuildLifeInv ==
    ASSUME IInv, NEW g \in Guild,
           BotJoins(g) \/ GuildCreate(g) \/ GuildDelete(g)
    PROVE  IInv'
<1>1. /\ joined \in SUBSET Guild /\ heard \in SUBSET joined /\ online \in BOOLEAN
      /\ messages \in [Channel -> Seq(Message)]
    BY DEF IInv, GatewayOK
<1>2. CASE BotJoins(g)
    <2>1. /\ todo[loop] = <<>> /\ events < MaxEvents /\ events' = events + 1
          /\ UNCHANGED todo
          /\ UNCHANGED <<cache, looked, oldThreads, calls, torn>>
        BY <1>2 DEF BotJoins, Tell
    <2>2. <<>> \in Seq(Call)
        OBVIOUS
    <2>3. joined' \in SUBSET Guild /\ heard' \in SUBSET joined'
        BY <1>1, <1>2 DEF BotJoins
    <2> QED  BY <1>1, <1>2, <2>1, <2>2, <2>3, OtherEventInv DEF BotJoins
<1>3. CASE GuildCreate(g)
    <2>0. PICK M \in SUBSET truth[g].members : Tell(TRUE, <<Op("GuildAdd", g, Whole(g, M))>>)
        BY <1>3 DEF GuildCreate
    <2>1. Whole(g, M) \in GuildGiven
        <3>1. /\ truth[g].members \in SUBSET User /\ truth[g].channels \in SUBSET Text
              /\ truth[g].threads \in SUBSET Thread /\ truth[g].items \in SUBSET Item
            BY TruthTypes DEF GuildRecord
        <3>2. Cardinality(truth[g].members) + 1 \in Int
            BY <3>1, FS_Subset, FS_CardinalityType, ConstantsAssumption
        <3> QED  BY <3>1, <3>2 DEF Whole, GuildGiven
    <2>2. \A c \in ChannelsOf(Whole(g, M)) : Home[c] = g
        BY TruthTypes DEF Whole, ChannelsOf, ListOf
    <2>3. PICK ops \in Seq(Call) : ops = <<Op("GuildAdd", g, Whole(g, M))>>
        BY <2>1, <2>2, GuildCalls, OneCall
    <2>4. /\ todo[loop] = <<>> /\ events < MaxEvents /\ events' = events + 1
          /\ todo' = [todo EXCEPT ![loop] = ops]
          /\ UNCHANGED <<cache, looked, oldThreads, calls, torn>>
        BY <2>0, <2>3 DEF Tell
    <2>5. joined' \in SUBSET Guild /\ heard' \in SUBSET joined'
        BY <1>1, <1>3 DEF GuildCreate
    <2> QED  BY <1>1, <1>3, <2>4, <2>5, OtherEventInv DEF GuildCreate
<1>4. CASE GuildDelete(g)
    <2>1. PICK ops \in Seq(Call) : ops = <<Op("GuildRemove", g, None)>>
        BY GuildCalls, OneCall
    <2>2. /\ todo[loop] = <<>> /\ events < MaxEvents /\ events' = events + 1
          /\ todo' = [todo EXCEPT ![loop] = ops] \/ UNCHANGED todo
          /\ UNCHANGED <<cache, looked, oldThreads, calls, torn>>
        BY <1>4, <2>1 DEF GuildDelete, Tell
    <2>3. joined' \in SUBSET Guild /\ heard' \in SUBSET joined'
        BY <1>1, <1>4 DEF GuildDelete
    <2> QED  BY <1>1, <1>4, <2>2, <2>3, OtherEventInv DEF GuildDelete
<1> QED  BY <1>2, <1>3, <1>4

\* GuildUpdate and ThreadListSync change nothing that is true.
LEMMA GuildNewsInv ==
    ASSUME IInv, NEW g \in Guild,
           GuildUpdate(g) \/ \E ids \in (SUBSET Text) \cup {None} : ThreadListSyncEvent(g, ids)
    PROVE  IInv'
<1>1. /\ truth[g].threads \in SUBSET Thread /\ truth[g].items \in SUBSET Item
      /\ \A t \in truth[g].threads : Home[t] = g
    BY TruthTypes DEF GuildRecord, ListOf
<1>2. CASE GuildUpdate(g)
    <2>1. PICK items \in {None, truth[g].items} :
              GuildEvent(g, truth[g], <<Op("GuildAdd", g, Bare(items))>>)
        BY <1>2 DEF GuildUpdate, GuildChange
    <2>2. Bare(items) \in GuildGiven /\ ChannelsOf(Bare(items)) = {}
        BY <1>1 DEF Bare, GuildGiven, ChannelsOf
    <2>3. <<Op("GuildAdd", g, Bare(items))>> \in Seq(Call)
        BY <2>2, GuildCalls, OneCall
    <2> QED  BY <2>1, <2>3, TruthTypes, GuildEventInv
<1>3. ASSUME NEW ids \in (SUBSET Text) \cup {None}, ThreadListSyncEvent(g, ids) PROVE IInv'
    <2>1. PICK mine \in SUBSET truth[g].threads :
              GuildChange(g, truth[g], Tracks("threads", <<Op("ThreadListSync", g,
                  [ids |-> ids,
                   threads |-> {t \in truth[g].threads : ids = None \/ Parent[t] \in ids},
                   mine |-> mine])>>))
        BY <1>3 DEF ThreadListSyncEvent
    <2>2. PICK synced \in SUBSET truth[g].threads :
              synced = {t \in truth[g].threads : ids = None \/ Parent[t] \in ids}
        OBVIOUS
    <2>3. PICK tls : tls = [ids |-> ids, threads |-> synced, mine |-> mine]
        OBVIOUS
    <2>4. /\ tls \in [ids: (SUBSET Text) \cup {None}, threads: SUBSET Thread,
                      mine: SUBSET Thread]
          /\ \A t \in tls.threads : Home[t] = g
        BY <1>1, <2>3
    <2>5. PICK ops \in Seq(Call) : ops = Tracks("threads", <<Op("ThreadListSync", g, tls)>>)
        BY <2>4, GuildCalls, OneCall
    <2>6. GuildEvent(g, truth[g], ops)
        BY <2>1, <2>2, <2>3, <2>5 DEF GuildChange
    <2> QED  BY <2>6, TruthTypes, GuildEventInv
<1> QED  BY <1>2, <1>3

\* The events of a channel change its guild's list.
LEMMA TextEventsInv ==
    ASSUME IInv, NEW c \in Text, ChannelCreate(c) \/ ChannelDelete(c)
    PROVE  IInv'
<1>1. PICK g \in Guild : g = Home[c]
    BY ConstantsAssumption
<1>2. truth[g] \in GuildRecord /\ \A d \in ListOf(truth[g]) : Home[d] = g
    BY TruthTypes
<1>3. CASE ChannelCreate(c)
    <2>1. PICK rec : rec = [truth[g] EXCEPT !.channels = @ \cup {c}]
        OBVIOUS
    <2>2. rec \in GuildRecord /\ \A d \in ListOf(rec) : Home[d] = g
        BY <1>1, <1>2, <2>1 DEF GuildRecord, ListOf
    <2>3. PICK ops \in Seq(Call) : ops = Tracks("channels", <<Op("ChannelAdd", c, FALSE)>>)
        BY ChannelCalls, OneCall DEF Channel
    <2>4. GuildEvent(g, rec, ops)
        BY <1>1, <1>3, <2>1, <2>3 DEF ChannelCreate
    <2> QED  BY <2>2, <2>4, GuildEventInv
<1>4. CASE ChannelDelete(c)
    <2>1. PICK rec : rec = [truth[g] EXCEPT !.channels = @ \ {c},
                                            !.threads = {t \in @ : Parent[t] # c}]
        OBVIOUS
    <2>2. rec \in GuildRecord /\ \A d \in ListOf(rec) : Home[d] = g
        BY <1>1, <1>2, <2>1 DEF GuildRecord, ListOf
    <2>3. PICK ops \in Seq(Call) : ops = Tracks("channels", <<Op("ChannelRemove", g, c)>>)
        BY <1>1, ChannelCalls, OneCall
    <2>4. GuildEvent(g, rec, ops)
        BY <1>1, <1>4, <2>1, <2>3 DEF ChannelDelete, GuildChange
    <2> QED  BY <2>2, <2>4, GuildEventInv
<1> QED  BY <1>3, <1>4

LEMMA ThreadEventsInv ==
    ASSUME IInv, NEW t \in Thread,
           \/ \E archived \in BOOLEAN : ThreadUpdate(t, archived)
           \/ ThreadDelete(t) \/ ThreadMemberEvent(t)
           \/ \E u \in User : ThreadMembersEvent(t, {u}, {}) \/ ThreadMembersEvent(t, {}, {u})
    PROVE  IInv'
<1>1. PICK g \in Guild : g = Home[t]
    BY ConstantsAssumption
<1>2. truth[g] \in GuildRecord /\ \A d \in ListOf(truth[g]) : Home[d] = g
    BY TruthTypes
<1>3. \A S : S \subseteq truth[g].threads \cup {t} =>
          /\ [truth[g] EXCEPT !.threads = S] \in GuildRecord
          /\ \A d \in ListOf([truth[g] EXCEPT !.threads = S]) : Home[d] = g
    BY <1>1, <1>2 DEF GuildRecord, ListOf
<1>4. ASSUME NEW archived \in BOOLEAN, ThreadUpdate(t, archived) PROVE IInv'
    <2>1. PICK S : S = IF archived THEN truth[g].threads \ {t} ELSE truth[g].threads \cup {t}
        OBVIOUS
    <2>2. PICK ops \in Seq(Call) : ops = Tracks("threads", <<Op("ChannelAdd", t, archived)>>)
        BY ChannelCalls, OneCall DEF Channel
    <2>3. GuildEvent(g, [truth[g] EXCEPT !.threads = S], ops)
        BY <1>1, <1>4, <2>1, <2>2 DEF ThreadUpdate, GuildChange
    <2>4. S \subseteq truth[g].threads \cup {t}
        BY <2>1
    <2> QED  BY <1>3, <2>3, <2>4, GuildEventInv
<1>5. CASE ThreadDelete(t)
    <2>1. PICK S : S = truth[g].threads \ {t}
        OBVIOUS
    <2>2. PICK ops \in Seq(Call) : ops = Tracks("threads", <<Op("ChannelRemove", g, t)>>)
        BY <1>1, ChannelCalls, OneCall
    <2>3. GuildEvent(g, [truth[g] EXCEPT !.threads = S], ops)
        BY <1>1, <1>5, <2>1, <2>2 DEF ThreadDelete
    <2> QED  BY <1>3, <2>1, <2>3, GuildEventInv
<1>6. CASE ThreadMemberEvent(t)
    <2>1. PICK ops \in Seq(Call) : ops = Tracks("threads", <<Op("ThreadMemberUpdate", t, None)>>)
        BY ChannelCalls, OneCall
    <2>2. GuildEvent(g, truth[g], ops)
        BY <1>1, <1>6, <2>1 DEF ThreadMemberEvent, GuildChange
    <2> QED  BY <1>2, <2>2, GuildEventInv
<1>7. ASSUME NEW added \in SUBSET User, NEW removed \in SUBSET User,
             ThreadMembersEvent(t, added, removed)
      PROVE  IInv'
    <2>1. truth[g].items \in SUBSET Item
        BY <1>2 DEF GuildRecord
    <2>2. PICK named \in SUBSET added, presences \in SUBSET (IF added = {} THEN {} ELSE truth[g].items) :
              GuildChange(g, truth[g], Tracks("threadMembers",
                  <<Op("ThreadMembersUpdate", t, [added |-> added, removed |-> removed,
                                                  named |-> named, presences |-> presences])>>))
        BY <1>1, <1>7 DEF ThreadMembersEvent
    <2>3. PICK a : a = [added |-> added, removed |-> removed,
                        named |-> named, presences |-> presences]
        OBVIOUS
    <2>4. a \in [added: SUBSET User, removed: SUBSET User,
                 named: SUBSET User, presences: SUBSET Item]
        BY <2>1, <2>3
    <2>5. PICK ops \in Seq(Call) :
              ops = Tracks("threadMembers", <<Op("ThreadMembersUpdate", t, a)>>)
        BY <2>4, ChannelCalls, OneCall
    <2>6. GuildEvent(g, truth[g], ops)
        BY <2>2, <2>3, <2>5 DEF GuildChange
    <2> QED  BY <1>2, <2>6, GuildEventInv
<1>8. ASSUME NEW u \in User, ThreadMembersEvent(t, {u}, {}) \/ ThreadMembersEvent(t, {}, {u})
      PROVE  IInv'
    <2>1. {u} \in SUBSET User /\ {} \in SUBSET User
        OBVIOUS
    <2> QED  BY <1>7, <1>8, <2>1
<1> QED  BY <1>4, <1>5, <1>6, <1>8

LEMMA PrivateChannelInv ==
    ASSUME IInv, NEW c \in Private, NEW op \in {"ChannelAdd", "ChannelRemove"},
           PrivateChannel(c, op)
    PROVE  IInv'
<1>1. /\ joined \in SUBSET Guild /\ heard \in SUBSET joined /\ online \in BOOLEAN
      /\ messages \in [Channel -> Seq(Message)]
    BY DEF IInv, GatewayOK
<1>2. PICK x \in Call :
          x = IF op = "ChannelAdd" THEN Op(op, c, FALSE) ELSE Op(op, None, c)
    BY ChannelCalls DEF Channel
<1>3. PICK ops \in Seq(Call) : ops = Tracks("channels", <<x>>)
    BY OneCall
<1>4. Tell(online, ops)
    BY <1>2, <1>3 DEF PrivateChannel
<1>5. /\ todo[loop] = <<>> /\ events < MaxEvents /\ events' = events + 1
      /\ todo' = [todo EXCEPT ![loop] = ops] \/ UNCHANGED todo
      /\ UNCHANGED <<cache, looked, oldThreads, calls, torn>>
    BY <1>4 DEF Tell
<1>6. messages' \in [Channel -> Seq(Message)]
    <2>1. <<>> \in Seq(Message)
        OBVIOUS
    <2> QED  BY <1>1, <2>1 DEF PrivateChannel
<1> QED  BY <1>1, <1>5, <1>6, OtherEventInv DEF PrivateChannel

LEMMA MessageEventsInv ==
    ASSUME IInv, NEW m \in Message, MessageCreate(m) \/ MessageUpdate(m) \/ MessageDelete(m)
    PROVE  IInv'
<1>1. /\ joined \in SUBSET Guild /\ heard \in SUBSET joined /\ online \in BOOLEAN
      /\ messages \in [Channel -> Seq(Message)]
    BY DEF IInv, GatewayOK
<1>2. PICK c \in Channel : c = In[m]
    BY ConstantsAssumption
<1>3. ASSUME NEW list \in Seq(Message), NEW op \in MessageOps, MessageEvent(c, list, op, m)
      PROVE  IInv'
    <2>1. PICK ops \in Seq(Call) : ops = <<Op(op, c, m)>>
        BY <1>2, ChannelCalls, OneCall
    <2>2. /\ todo[loop] = <<>> /\ events < MaxEvents /\ events' = events + 1
          /\ todo' = [todo EXCEPT ![loop] = ops] \/ UNCHANGED todo
          /\ UNCHANGED <<cache, looked, oldThreads, calls, torn>>
        BY <1>3, <2>1 DEF MessageEvent, Tell
    <2>3. messages' \in [Channel -> Seq(Message)]
        BY <1>1, <1>3 DEF MessageEvent
    <2> QED  BY <1>1, <1>3, <2>2, <2>3, OtherEventInv DEF MessageEvent
<1>4. PICK old \in Seq(Message) : old = messages[c]
    BY <1>1
<1>5. CASE MessageCreate(m)
    <2>1. Append(old, m) \in Seq(Message)
        OBVIOUS
    <2> QED  BY <1>2, <1>3, <1>4, <1>5, <2>1 DEF MessageCreate, MessageOps
<1>6. CASE MessageUpdate(m)
    BY <1>2, <1>3, <1>4, <1>6 DEF MessageUpdate, MessageOps
<1>7. CASE MessageDelete(m)
    BY <1>2, <1>3, <1>4, <1>7, WithoutType DEF MessageDelete, MessageOps
<1> QED  BY <1>5, <1>6, <1>7

\* A call of the program is one of the calls above.
LEMMA CallsInv ==
    ASSUME IInv, NEW p \in Program, NEW op, NEW at, NEW arg, Calls(p, op, at, arg),
           Op(op, at, arg) \in Call
    PROVE  IInv'
<1>1. PICK ops \in Seq(Call) : ops = <<Op(op, at, arg)>>
    BY OneCall
<1>2. /\ todo[p] = <<>> /\ calls < MaxCalls /\ calls' = calls + 1
      /\ todo' = [todo EXCEPT ![p] = ops]
      /\ UNCHANGED <<cache, looked, oldThreads, gateway, events, torn>>
    BY <1>1 DEF Calls
<1>3. UNCHANGED <<guildMap, listed, memberMap, channelMap, private, truth, joined,
                  messages, heard, online>>
    BY <1>2 DEF cache, gateway
<1>4. CallsOK'
    BY <1>2 DEF IInv, CallsOK
<1>5. BoundsOK'
    BY <1>2, ConstantsAssumption DEF IInv, BoundsOK
<1>6. \A q \in Proc : q # p => todo'[q] = todo[q]
    BY <1>2 DEF IInv, CallsOK
<1>7. looked[p] = "no" /\ oldThreads[p] = {}
    BY <1>2 DEF IInv, CallsOK, Halves, Proc
<1>8. Halves'
    <2>1. \A q \in Proc : q # p => At(q)' = At(q)
        BY <1>6 DEF At
    <2> QED  BY <1>2, <1>3, <1>6, <1>7, <2>1 DEF IInv, Halves, HasGuild, HasChannel
<1>9. CacheOK' /\ GatewayOK' /\ Homes' /\ ListedHere' /\ MembersAgree'
    BY <1>2, <1>3 DEF IInv, CacheOK, GatewayOK, Homes, ListedHere, MembersAgree, HasGuild
<1>10. ChannelsAgree'
    BY <1>2, <1>3 DEF IInv, ChannelsAgree, HasGuild, HasChannel
<1> QED  BY <1>4, <1>5, <1>8, <1>9, <1>10 DEF IInv

LEMMA ProgramCallsInv ==
    ASSUME IInv, NEW p \in Program, ProgramCalls(p)
    PROVE  IInv'
<1>1. ASSUME NEW g \in Guild, Calls(p, "GuildAdd", g, Bare({})) PROVE IInv'
    <2>1. Bare({}) \in GuildGiven /\ ChannelsOf(Bare({})) = {}
        BY DEF Bare, GuildGiven, ChannelsOf
    <2>2. Op("GuildAdd", g, Bare({})) \in Call
        BY <2>1, GuildCalls
    <2> QED  BY <1>1, <2>2, CallsInv
<1>2. ASSUME NEW g \in Guild, Calls(p, "GuildRemove", g, None) PROVE IInv'
    BY <1>2, GuildCalls, CallsInv
<1>3. ASSUME NEW g \in Guild, NEW u \in User, NEW op \in MemberOps, Calls(p, op, g, u)
      PROVE  IInv'
    BY <1>3, GuildCalls, CallsInv
<1>4. ASSUME NEW g \in Guild, NEW i \in Item, NEW op \in ItemOps, Calls(p, op, g, i)
      PROVE  IInv'
    BY <1>4, GuildCalls, CallsInv
<1>5. ASSUME NEW c \in Text \cup Thread, Calls(p, "ChannelAdd", c, FALSE) PROVE IInv'
    BY <1>5, ChannelCalls, CallsInv DEF Channel
<1>6. ASSUME NEW c \in Text \cup Thread, Calls(p, "ChannelRemove", Home[c], c) PROVE IInv'
    BY <1>6, ChannelCalls, CallsInv
<1>7. ASSUME NEW m \in Message, NEW op \in MessageOps, Calls(p, op, In[m], m) PROVE IInv'
    BY <1>7, ChannelCalls, CallsInv
<1>8. \/ \E g \in Guild :
          \/ Calls(p, "GuildAdd", g, Bare({})) \/ Calls(p, "GuildRemove", g, None)
          \/ \E u \in User, op \in MemberOps : Calls(p, op, g, u)
          \/ \E i \in Item, op \in ItemOps : Calls(p, op, g, i)
      \/ \E c \in Text \cup Thread :
          Calls(p, "ChannelAdd", c, FALSE) \/ Calls(p, "ChannelRemove", Home[c], c)
      \/ \E m \in Message, op \in MessageOps : Calls(p, op, In[m], m)
    BY DEF ProgramCalls, MemberOps, ItemOps, MessageOps
<1> QED  BY <1>1, <1>2, <1>3, <1>4, <1>5, <1>6, <1>7, <1>8

-----------------------------------------------------------------------------
(* The theorems *)

LEMMA InitInv ==
    ASSUME Init
    PROVE  IInv
<1>1. guildMap = [g \in Guild |-> None] /\ channelMap = [c \in Channel |-> None]
    BY DEF Init
<1>2. CacheOK
    BY DEF Init, CacheOK
<1>3. CallsOK
    <2>1. <<>> \in Seq(Call)
        OBVIOUS
    <2> QED  BY <2>1 DEF Init, CallsOK
<1>4. ASSUME NEW g \in Guild
      PROVE  truth[g] \in GuildRecord /\ \A c \in ListOf(truth[g]) : Home[c] = g
    <2>1. truth[g] = [NewGuild EXCEPT !.channels = {c \in used : Home[c] = g}] /\ used \subseteq Text
        BY DEF Init
    <2>2. \A S \in SUBSET Text : [NewGuild EXCEPT !.channels = S] \in GuildRecord
        BY NewTypes DEF GuildRecord
    <2>3. ListOf(truth[g]) = {c \in used : Home[c] = g}
        BY <2>1 DEF ListOf, NewGuild
    <2> QED  BY <2>1, <2>2, <2>3
<1>5. GatewayOK
    <2>1. truth \in [Guild -> GuildRecord]
        BY <1>4 DEF Init
    <2>2. messages \in [Channel -> Seq(Message)]
        BY DEF Init
    <2> QED  BY <2>1, <2>2 DEF Init, GatewayOK
<1>6. BoundsOK
    BY ConstantsAssumption DEF Init, BoundsOK
<1>7. Halves
    BY DEF Init, Halves
<1>8. Homes
    BY <1>1, <1>4 DEF Homes, HasGuild
<1>9. ListedHere /\ MembersAgree /\ ChannelsAgree
    BY <1>1 DEF Init, ListedHere, MembersAgree, ChannelsAgree, HasGuild
<1> QED  BY <1>2, <1>3, <1>5, <1>6, <1>7, <1>8, <1>9 DEF IInv

LEMMA NextInv ==
    ASSUME IInv, [Next]_vars
    PROVE  IInv'
<1>1. ASSUME NEW p \in Proc, Methods(p) PROVE IInv'
    BY <1>1, LookInv, GuildAddInv, GuildRemoveInv, MemberCountInv, MemberAddInv,
       MemberRemoveInv, ItemsInv, PresenceAddInv, ChannelAddInv, ChannelRemoveInv,
       ThreadListSyncInv, ThreadMembersUpdateInv, ThreadMemberUpdateInv, MessageAddInv,
       MessageRemoveInv, onReadyInv DEF Methods
<1>2. ASSUME NEW g \in Guild, GuildEvents(g) PROVE IInv'
    BY <1>2, GuildLifeInv, GuildNewsInv, MemberEventsInv, ItemEventsInv DEF GuildEvents
<1>3. CASE ChannelEvents
    BY <1>3, TextEventsInv, ThreadEventsInv, PrivateChannelInv, MessageEventsInv
       DEF ChannelEvents
<1>4. CASE Ready \/ SessionLost
    BY <1>4, SessionEventsInv
<1>5. ASSUME NEW p \in Program, ProgramCalls(p) PROVE IInv'
    BY <1>5, ProgramCallsInv
<1>6. CASE UNCHANGED vars
    <2>1. UNCHANGED <<guildMap, listed, memberMap, channelMap, private, todo, looked,
                      oldThreads, truth, joined, messages, heard, online, calls, events, torn>>
        BY <1>6 DEF vars, cache, gateway
    <2>2. CacheOK' /\ CallsOK' /\ GatewayOK' /\ BoundsOK'
        BY <2>1 DEF IInv, CacheOK, CallsOK, GatewayOK, BoundsOK
    <2>3. Halves'
        BY <2>1 DEF IInv, Halves, At, HasGuild, HasChannel
    <2>4. Homes' /\ ListedHere' /\ MembersAgree' /\ ChannelsAgree'
        BY <2>1 DEF IInv, Homes, ListedHere, MembersAgree, ChannelsAgree, HasGuild, HasChannel
    <2> QED  BY <2>2, <2>3, <2>4 DEF IInv
<1> QED  BY <1>1, <1>2, <1>3, <1>4, <1>5, <1>6 DEF Next, Gateway

LEMMA IInvHolds == Spec => []IInv
<1>1. Init => IInv
    BY InitInv
<1>2. IInv /\ [Next]_vars => IInv'
    BY NextInv
<1> QED  BY <1>1, <1>2, PTL DEF Spec

-----------------------------------------------------------------------------
(* The other way round: what is in the maps of guilds and channels is in a  *)
(* list, or left over from one.                                             *)

GuildsKnown == \A g \in Guild : HasGuild(g) => g \in listed \cup leftOver
ChannelsKnown ==
    \A c \in Text \cup Thread :
        HasChannel(c) /\ HasGuild(Home[c]) /\ Home[c] \notin torn =>
            c \in ListOf(guildMap[Home[c]]) \cup leftOver
Known ==
    /\ leftOver \in SUBSET (Guild \cup Text \cup Thread)
    /\ told \in [Guild -> SUBSET User]
    /\ GuildsKnown /\ ChannelsKnown

\* A step that brings no guild, and no channel that it does not list, leaves
\* nothing over.
LEMMA KnownKept ==
    ASSUME Known, UNCHANGED <<listed, leftOver, told>>, torn \subseteq torn',
           \A g \in Guild : HasGuild(g)' => HasGuild(g),
           \A c \in Text \cup Thread :
               HasChannel(c)' /\ HasGuild(Home[c])' /\ Home[c] \notin torn' =>
                   \/ /\ HasChannel(c)
                      /\ c \in ListOf(guildMap[Home[c]]) => c \in ListOf(guildMap[Home[c]])'
                   \/ c \in ListOf(guildMap[Home[c]])'
    PROVE  Known'
<1>1. GuildsKnown'
    BY DEF Known, GuildsKnown
<1>2. ASSUME NEW c \in Text \cup Thread,
             HasChannel(c)', HasGuild(Home[c])', Home[c] \notin torn'
      PROVE  c \in ListOf(guildMap[Home[c]])' \cup leftOver'
    <2>1. HasGuild(Home[c]) /\ Home[c] \notin torn
        BY <1>2, ConstantsAssumption
    <2>2. CASE HasChannel(c) /\ (c \in ListOf(guildMap[Home[c]]) => c \in ListOf(guildMap[Home[c]])')
        BY <2>1, <2>2 DEF Known, ChannelsKnown
    <2>3. CASE c \in ListOf(guildMap[Home[c]])'
        BY <2>3
    <2> QED  BY <1>2, <2>2, <2>3
<1>3. ChannelsKnown'
    BY <1>2, Zenon DEF ChannelsKnown
<1> QED  BY <1>1, <1>3 DEF Known

\* A step that changes neither guilds nor channels of the cache.
LEMMA KnownSame ==
    ASSUME Known, UNCHANGED <<guildMap, channelMap, listed, leftOver, torn>>,
           told' \in [Guild -> SUBSET User]
    PROVE  Known'
BY DEF Known, GuildsKnown, ChannelsKnown, HasGuild, HasChannel

\* The same, with a change of the members, the count or the items of a guild.
LEMMA KnownLists ==
    ASSUME Known, UNCHANGED <<listed, leftOver, told>>, torn \subseteq torn',
           \A g \in Guild : HasGuild(g)' => HasGuild(g),
           \A g \in Guild : HasGuild(g) => ListOf(guildMap[g])' = ListOf(guildMap[g]),
           \A c \in Text \cup Thread : HasChannel(c)' => HasChannel(c)
    PROVE  Known'
<1>1. ASSUME NEW c \in Text \cup Thread, HasChannel(c)', HasGuild(Home[c])'
      PROVE  /\ HasChannel(c)
             /\ c \in ListOf(guildMap[Home[c]]) => c \in ListOf(guildMap[Home[c]])'
    BY <1>1, ConstantsAssumption
<1> QED  BY <1>1, KnownKept

\* A change of the guild p looked up that leaves its channels and threads.
LEMMA ChangeGuildLists ==
    ASSUME IInv, NEW p \in Proc, At(p) \in Guild, NEW rec, ChangeGuild(p, rec),
           Live(p) => ListOf(rec) = ListOf(guildMap[At(p)])
    PROVE  /\ \A g \in Guild : HasGuild(g)' => HasGuild(g)
           /\ \A g \in Guild : ListOf(guildMap[g])' = ListOf(guildMap[g])
<1>1. CASE Live(p)
    <2>1. guildMap' = [guildMap EXCEPT ![At(p)] = rec] /\ HasGuild(At(p))
        BY <1>1, LiveGuild DEF ChangeGuild
    <2>2. \A g \in Guild : /\ g # At(p) => guildMap'[g] = guildMap[g]
                           /\ g = At(p) => guildMap'[g] = rec
        BY <2>1 DEF IInv, CacheOK
    <2> QED  BY <1>1, <2>1, <2>2 DEF HasGuild, ListOf
<1>2. CASE ~Live(p)
    <2>1. UNCHANGED guildMap
        BY <1>2 DEF ChangeGuild
    <2> QED  BY <2>1 DEF HasGuild, ListOf
<1> QED  BY <1>1, <1>2

LEMMA SetItemsKnown ==
    ASSUME IInv, Known, NEW p \in Proc, NEW op, NEW S, SetItems(p, op, S), At(p) \in Guild
    PROVE  Known'
<1>1. PICK rec : rec = [guildMap[At(p)] EXCEPT !.items = S]
    OBVIOUS
<1>2. ChangeGuild(p, rec) /\ UNCHANGED <<listed, leftOver, channelMap, told, torn>>
    BY <1>1 DEF SetItems, gateway
<1>3. Live(p) => ListOf(rec) = ListOf(guildMap[At(p)])
    BY <1>1, LiveGuild DEF GuildRecord, ListOf
<1>4. /\ \A g \in Guild : HasGuild(g)' => HasGuild(g)
      /\ \A g \in Guild : ListOf(guildMap[g])' = ListOf(guildMap[g])
    BY <1>2, <1>3, ChangeGuildLists
<1> QED  BY <1>2, <1>4, KnownLists DEF HasChannel

\* The methods of members and of the lists without a map.
LEMMA ListsKnown ==
    ASSUME IInv, Known, NEW p \in Proc,
           \/ MemberCount(p) \/ MemberAdd(p) \/ MemberRemove(p)
           \/ RoleAdd(p) \/ RoleRemove(p) \/ EmojiAdd(p) \/ PresenceRemove(p)
           \/ voiceStateUpdate(p) \/ SetEmojis(p) \/ PresenceAdd(p)
    PROVE  Known'
<1>1. CASE MemberCount(p)
    <2>1. At(p) \in Guild
        BY <1>1, CallOf, CallKinds DEF MemberCount, Found, IInv
    <2>2. PICK rec : rec = [guildMap[At(p)] EXCEPT !.count = @ + Arg(p)]
        OBVIOUS
    <2>3. ChangeGuild(p, rec) /\ UNCHANGED <<listed, leftOver, channelMap, told, torn>>
        BY <1>1, <2>2 DEF MemberCount, gateway
    <2>4. Live(p) => ListOf(rec) = ListOf(guildMap[At(p)])
        BY <2>1, <2>2, LiveGuild DEF GuildRecord, ListOf
    <2>5. /\ \A g \in Guild : HasGuild(g)' => HasGuild(g)
          /\ \A g \in Guild : ListOf(guildMap[g])' = ListOf(guildMap[g])
        BY <2>1, <2>3, <2>4, ChangeGuildLists
    <2> QED  BY <2>3, <2>5, KnownLists DEF HasChannel
<1>2. CASE MemberAdd(p)
    <2>1. At(p) \in Guild /\ {Arg(p)} \in SUBSET User /\ {} \in SUBSET Item
        BY <1>2, CallOf, CallKinds DEF MemberAdd, IInv, MemberOps
    <2>2. /\ WithMembers(At(p), {Arg(p)}, {})
          /\ UNCHANGED <<listed, leftOver, channelMap, told, torn>>
        BY <1>2 DEF MemberAdd, gateway
    <2>3. /\ \A h \in Guild : HasGuild(h)' <=> HasGuild(h)
          /\ \A h \in Guild : HasGuild(h) => ListOf(guildMap[h])' = ListOf(guildMap[h])
        BY <2>1, <2>2, WithMembersStep
    <2> QED  BY <2>2, <2>3, KnownLists DEF HasChannel
<1>3. CASE MemberRemove(p)
    <2>1. At(p) \in Guild
        BY <1>3, CallOf, CallKinds DEF MemberRemove, Found, IInv, MemberOps
    <2>2. UNCHANGED <<listed, leftOver, channelMap, told>>
        BY <1>3 DEF MemberRemove, gateway
    <2>3. PICK rec : rec = [guildMap[At(p)] EXCEPT !.members = @ \ {Arg(p)}]
        OBVIOUS
    <2>4. \/ UNCHANGED <<guildMap, torn>>
          \/ ChangeGuild(p, rec) /\ Tear(p, At(p))
        BY <1>3, <2>3 DEF MemberRemove
    <2>5. torn \subseteq torn'
        BY <2>4 DEF Tear
    <2>6. Live(p) => ListOf(rec) = ListOf(guildMap[At(p)])
        BY <2>1, <2>3, LiveGuild DEF GuildRecord, ListOf
    <2>7. /\ \A g \in Guild : HasGuild(g)' => HasGuild(g)
          /\ \A g \in Guild : ListOf(guildMap[g])' = ListOf(guildMap[g])
        <3>1. CASE UNCHANGED guildMap
            BY <3>1 DEF HasGuild, ListOf
        <3>2. CASE ChangeGuild(p, rec)
            BY <2>1, <2>6, <3>2, ChangeGuildLists
        <3> QED  BY <2>4, <3>1, <3>2
    <2> QED  BY <2>2, <2>5, <2>7, KnownLists DEF HasChannel
<1>4. CASE RoleAdd(p) \/ RoleRemove(p) \/ EmojiAdd(p) \/ PresenceRemove(p)
    <2>1. At(p) \in Guild
        BY <1>4, CallOf, CallKinds DEF RoleAdd, RoleRemove, EmojiAdd, PresenceRemove,
           SetItems, Found, IInv, ItemOps
    <2> QED  BY <1>4, <2>1, SetItemsKnown DEF RoleAdd, RoleRemove, EmojiAdd, PresenceRemove
<1>5. CASE voiceStateUpdate(p) \/ SetEmojis(p)
    <2>1. At(p) \in Guild
        BY <1>5, CallOf, CallKinds DEF voiceStateUpdate, SetEmojis, SetItems, Found, IInv
    <2> QED  BY <1>5, <2>1, SetItemsKnown DEF voiceStateUpdate, SetEmojis
<1>6. CASE PresenceAdd(p)
    <2>1. At(p) \in Guild
        BY <1>6, CallOf, CallKinds DEF PresenceAdd, IInv, ItemOps
    <2>2. UNCHANGED <<listed, leftOver, channelMap, told, torn>>
        BY <1>6 DEF PresenceAdd, gateway
    <2>3. CASE ~HasGuild(At(p))
        <3>1. UNCHANGED guildMap
            BY <1>6, <2>3 DEF PresenceAdd
        <3> QED  BY <2>2, <3>1, KnownLists DEF HasChannel, HasGuild, ListOf
    <2>4. CASE HasGuild(At(p))
        <3>1. PICK rec : rec = [guildMap[At(p)] EXCEPT !.items = @ \cup {Arg(p)}]
            OBVIOUS
        <3>2. ListOf(rec) = ListOf(guildMap[At(p)])
            BY <2>1, <2>4, <3>1, Entries DEF IInv, GuildRecord, ListOf
        <3>3. guildMap' = [guildMap EXCEPT ![At(p)] = rec]
            BY <1>6, <2>4, <3>1 DEF PresenceAdd
        <3>4. \A g \in Guild : /\ g # At(p) => guildMap'[g] = guildMap[g]
                               /\ g = At(p) => guildMap'[g] = rec
            BY <3>3 DEF IInv, CacheOK
        <3>5. /\ \A g \in Guild : HasGuild(g)' => HasGuild(g)
              /\ \A g \in Guild : ListOf(guildMap[g])' = ListOf(guildMap[g])
            BY <2>4, <3>2, <3>4 DEF HasGuild, ListOf
        <3> QED  BY <2>2, <3>5, KnownLists DEF HasChannel
    <2> QED  BY <2>3, <2>4
<1> QED  BY <1>1, <1>2, <1>3, <1>4, <1>5, <1>6

\* The methods that change one channel.
LEMMA ChannelKnown ==
    ASSUME IInv, Known, NEW p \in Proc,
           \/ ThreadMembersUpdate(p) \/ ThreadMemberUpdate(p)
           \/ MessageAdd(p) \/ MessageRemove(p)
    PROVE  Known'
<1>1. ASSUME NEW rec, ChangeChannel(p, rec), At(p) \in Channel
      PROVE  \A c \in Text \cup Thread : HasChannel(c)' => HasChannel(c)
    BY <1>1 DEF ChangeChannel, IInv, Live, Halves, CacheOK, HasChannel, Channel
<1>2. CASE ThreadMembersUpdate(p)
    <2>1. /\ At(p) \in Thread /\ Arg(p).named \in SUBSET User
          /\ Arg(p).presences \in SUBSET Item
        BY <1>2, CallOf, CallKinds DEF ThreadMembersUpdate, Found, IInv
    <2>2. PICK rec : ChangeChannel(p, rec)
        BY <1>2 DEF ThreadMembersUpdate
    <2>3. /\ WithMembers(Home[At(p)], Arg(p).named, Arg(p).presences)
          /\ UNCHANGED <<listed, leftOver, told, torn>>
        BY <1>2 DEF ThreadMembersUpdate, gateway
    <2>4. Home[At(p)] \in Guild
        BY <2>1, ConstantsAssumption
    <2>5. /\ \A h \in Guild : HasGuild(h)' <=> HasGuild(h)
          /\ \A h \in Guild : HasGuild(h) => ListOf(guildMap[h])' = ListOf(guildMap[h])
        BY <2>1, <2>3, <2>4, WithMembersStep
    <2>6. \A c \in Text \cup Thread : HasChannel(c)' => HasChannel(c)
        BY <1>1, <2>1, <2>2 DEF Channel
    <2> QED  BY <2>3, <2>5, <2>6, KnownLists
<1>3. CASE ThreadMemberUpdate(p) \/ MessageAdd(p) \/ MessageRemove(p)
    <2>1. At(p) \in Channel
        BY <1>3, CallOf, CallKinds DEF ThreadMemberUpdate, MessageAdd, MessageRemove, Found,
           IInv, MessageOps, Channel
    <2>2. PICK rec : ChangeChannel(p, rec)
        BY <1>3 DEF ThreadMemberUpdate, MessageAdd, MessageRemove
    <2>3. UNCHANGED <<guildMap, listed, leftOver, told, torn>>
        BY <1>3 DEF ThreadMemberUpdate, MessageAdd, MessageRemove, gateway
    <2>4. \A c \in Text \cup Thread : HasChannel(c)' => HasChannel(c)
        BY <1>1, <2>1, <2>2
    <2> QED  BY <2>3, <2>4, KnownLists DEF HasGuild, ListOf
<1> QED  BY <1>2, <1>3

LEMMA GuildAddKnown ==
    ASSUME IInv, Known, NEW p \in Proc, GuildAdd(p)
    PROVE  Known'
<1>1. /\ At(p) \in Guild /\ Arg(p) \in GuildGiven
      /\ \A c \in ChannelsOf(Arg(p)) : Home[c] = At(p)
    BY CallOf, CallKinds DEF GuildAdd, IInv
<1>2. PICK g \in Guild, new \in GuildGiven : g = At(p) /\ new = Arg(p)
    BY <1>1
<1>3. PICK S \in SUBSET (Text \cup Thread) : S = ChannelsOf(new)
    BY DEF GuildGiven, ChannelsOf
<1>4. PICK old \in GuildRecord : old = IF guildMap[g] = None THEN NewGuild ELSE guildMap[g]
    BY NewTypes, Entries DEF IInv, HasGuild
<1>5. PICK rec \in GuildRecord : rec = Merge(new, old)
    BY MergeType
<1>6. /\ guildMap' = [guildMap EXCEPT ![g] = rec]
      /\ listed' = IF HasGuild(g) THEN listed ELSE listed \cup {g}
      /\ channelMap' = [c \in Channel |-> IF c \in S THEN NewChannel ELSE channelMap[c]]
      /\ UNCHANGED <<told, torn>>
    BY <1>2, <1>3, <1>4, <1>5 DEF GuildAdd, IInv, CacheOK, gateway
<1>7. \A h \in Guild : /\ h # g => guildMap'[h] = guildMap[h]
                       /\ h = g => guildMap'[h] = rec
    BY <1>6 DEF IInv, CacheOK
<1>8. leftOver' = (leftOver \ S) \cup
          {c \in Text \cup Thread : /\ Home[c] = g /\ HasChannel(c)
                                  /\ c \notin rec.channels /\ c \notin rec.threads}
    BY <1>2, <1>3, <1>7 DEF GuildAdd
<1>9. \A c \in Channel : c \notin S => channelMap'[c] = channelMap[c]
    BY <1>6
<1>10. S \subseteq ListOf(rec)
    <2>1. /\ rec.channels = IF new.channels = None THEN old.channels ELSE new.channels
          /\ rec.threads = IF new.threads = None THEN old.threads ELSE new.threads
        BY <1>5 DEF Merge
    <2> QED  BY <1>3, <2>1 DEF ChannelsOf, ListOf
<1>11. GuildsKnown'
    <2>1. \A h \in Guild : h \notin S
        BY ConstantsAssumption DEF Channel
    <2>2. ASSUME NEW h \in Guild, HasGuild(h)' PROVE h \in listed' \cup leftOver'
        <3>1. CASE h = g /\ ~HasGuild(g)
            BY <1>6, <3>1
        <3>2. CASE h # g \/ HasGuild(g)
            <4>1. HasGuild(h)
                BY <1>7, <2>2, <3>2 DEF HasGuild
            <4> QED  BY <1>6, <1>8, <2>1, <4>1 DEF Known, GuildsKnown
        <3> QED  BY <3>1, <3>2
    <2> QED  BY <2>2 DEF GuildsKnown
<1>12. ASSUME NEW c \in Text \cup Thread,
              HasChannel(c)', HasGuild(Home[c])', Home[c] \notin torn'
       PROVE  c \in ListOf(guildMap[Home[c]])' \cup leftOver'
    <2>1. CASE Home[c] = g
        <3>1. CASE c \in S
            BY <1>7, <1>10, <2>1, <3>1 DEF ListOf
        <3>2. CASE c \notin S
            <4>1. HasChannel(c)
                BY <1>9, <1>12, <3>2 DEF HasChannel, Channel
            <4> QED  BY <1>7, <1>8, <2>1, <4>1 DEF ListOf
        <3> QED  BY <3>1, <3>2
    <2>2. CASE Home[c] # g
        <3>1. c \notin S
            BY <1>1, <1>2, <1>3, <2>2
        <3>2. HasChannel(c) /\ guildMap'[Home[c]] = guildMap[Home[c]]
            BY <1>7, <1>9, <1>12, <2>2, <3>1, ConstantsAssumption DEF HasChannel, Channel
        <3>3. c \in ListOf(guildMap[Home[c]]) \cup leftOver
            BY <1>6, <1>12, <3>2 DEF Known, ChannelsKnown, HasGuild
        <3> QED  BY <1>8, <3>1, <3>2, <3>3 DEF ListOf
    <2> QED  BY <2>1, <2>2
<1>13. ChannelsKnown'
    BY <1>12, Zenon DEF ChannelsKnown
<1> QED  BY <1>6, <1>8, <1>11, <1>13 DEF Known

LEMMA GuildRemoveKnown ==
    ASSUME IInv, Known, NEW p \in Proc, GuildRemove(p)
    PROVE  Known'
<1>1. PICK g \in Guild : g = At(p)
    BY CallOf, CallKinds DEF GuildRemove, Found, IInv
<1>2. /\ guildMap' = [guildMap EXCEPT ![g] = None] /\ listed' = listed \ {g}
      /\ leftOver' = leftOver \ {g} /\ UNCHANGED <<channelMap, told, torn>>
    BY <1>1 DEF GuildRemove, gateway
<1>3. \A h \in Guild : /\ h # g => guildMap'[h] = guildMap[h]
                       /\ h = g => guildMap'[h] = None
    BY <1>2 DEF IInv, CacheOK
<1>4. GuildsKnown'
    BY <1>2, <1>3 DEF Known, GuildsKnown, HasGuild
<1>5. ASSUME NEW c \in Text \cup Thread,
             HasChannel(c)', HasGuild(Home[c])', Home[c] \notin torn'
      PROVE  c \in ListOf(guildMap[Home[c]])' \cup leftOver'
    <2>1. c # g /\ Home[c] \in Guild
        BY ConstantsAssumption DEF Channel
    <2>2. Home[c] # g /\ guildMap'[Home[c]] = guildMap[Home[c]]
        BY <1>3, <1>5, <2>1 DEF HasGuild
    <2>3. c \in ListOf(guildMap[Home[c]]) \cup leftOver
        BY <1>2, <1>5, <2>2 DEF Known, ChannelsKnown, HasGuild, HasChannel
    <2> QED  BY <1>2, <2>1, <2>2, <2>3 DEF ListOf
<1>6. ChannelsKnown'
    BY <1>5, Zenon DEF ChannelsKnown
<1> QED  BY <1>2, <1>4, <1>6 DEF Known

LEMMA onReadyKnown ==
    ASSUME IInv, Known, NEW p \in Proc, onReady(p)
    PROVE  Known'
<1>1. PICK G \in SUBSET Guild, P \in SUBSET Private : G = Arg(p).guilds /\ P = Arg(p).private
    BY CallOf, CallKinds DEF onReady, IInv
<1>2. /\ listed' = G
      /\ leftOver' = (leftOver \ G) \cup {g \in Guild \ G : HasGuild(g)}
                     \cup {c \in Text \cup Thread : Home[c] \in G /\ HasChannel(c)}
      /\ guildMap' = [g \in Guild |-> IF g \in G THEN NewGuild ELSE guildMap[g]]
      /\ channelMap' = [c \in Channel |-> IF c \in P THEN NewChannel ELSE channelMap[c]]
      /\ UNCHANGED <<told, torn>>
    BY <1>1 DEF onReady, gateway
<1>3. GuildsKnown'
    BY <1>2 DEF GuildsKnown, HasGuild
<1>4. ASSUME NEW c \in Text \cup Thread,
             HasChannel(c)', HasGuild(Home[c])', Home[c] \notin torn'
      PROVE  c \in ListOf(guildMap[Home[c]])' \cup leftOver'
    <2>1. c \in Channel /\ c \notin P /\ c \notin G /\ Home[c] \in Guild
        BY ConstantsAssumption DEF Channel
    <2>2. HasChannel(c)
        BY <1>2, <1>4, <2>1 DEF HasChannel
    <2>3. CASE Home[c] \in G
        BY <1>2, <2>2, <2>3
    <2>4. CASE Home[c] \notin G
        <3>1. guildMap'[Home[c]] = guildMap[Home[c]]
            BY <1>2, <2>1, <2>4
        <3>2. c \in ListOf(guildMap[Home[c]]) \cup leftOver
            BY <1>2, <1>4, <2>2, <3>1 DEF Known, ChannelsKnown, HasGuild
        <3> QED  BY <1>2, <2>1, <3>1, <3>2 DEF ListOf
    <2> QED  BY <2>3, <2>4
<1>5. ChannelsKnown'
    BY <1>4, Zenon DEF ChannelsKnown
<1> QED  BY <1>2, <1>3, <1>5 DEF Known

\* A new channel is in a list.
LEMMA ChannelAddKnown ==
    ASSUME IInv, Known, NEW p \in Proc, ChannelAdd(p)
    PROVE  Known'
<1>1. PICK c \in Channel : c = At(p)
    BY CallOf, CallKinds DEF ChannelAdd, IInv
<1>2. UNCHANGED <<listed, leftOver, told, torn>>
    BY DEF ChannelAdd, gateway
<1>3. \A d \in Channel : d # c => channelMap'[d] = channelMap[d]
    BY <1>1 DEF ChannelAdd, IInv, CacheOK
<1>4. CASE HasChannel(c) \/ c \in Private \/ ~HasGuild(Home[c])
    <2>1. UNCHANGED guildMap
        BY <1>1, <1>4 DEF ChannelAdd
    <2>2. \A d \in Text \cup Thread : HasChannel(d)' => HasChannel(d)
        <3>1. CASE HasChannel(c) \/ c \in Private
            BY <1>3, <3>1, ConstantsAssumption DEF HasChannel, Channel
        <3>2. CASE ~HasChannel(c) /\ c \notin Private /\ ~HasGuild(Home[c])
            BY <1>1, <3>2 DEF ChannelAdd, HasChannel
        <3> QED  BY <1>4, <3>1, <3>2
    <2> QED  BY <1>2, <2>1, <2>2, KnownLists DEF HasGuild, ListOf
<1>5. CASE ~HasChannel(c) /\ c \notin Private /\ HasGuild(Home[c])
    <2>1. PICK g \in Guild : g = Home[c]
        BY <1>5, ConstantsAssumption DEF Channel
    <2>2. guildMap[g] \in GuildRecord
        BY <1>5, <2>1, Entries DEF IInv
    <2>3. PICK new : new = IF c \in Thread THEN [guildMap[g] EXCEPT !.threads = @ \cup {c}]
                           ELSE [guildMap[g] EXCEPT !.channels = @ \cup {c}]
        OBVIOUS
    <2>4. ListOf(new) = ListOf(guildMap[g]) \cup {c}
        BY <2>2, <2>3 DEF GuildRecord, ListOf
    <2>5. guildMap' = [guildMap EXCEPT ![g] = new]
        BY <1>1, <1>5, <2>1, <2>3 DEF ChannelAdd, IInv, CacheOK
    <2>6. \A h \in Guild : /\ h # g => guildMap'[h] = guildMap[h]
                           /\ h = g => guildMap'[h] = new
        BY <2>5 DEF IInv, CacheOK
    <2>7. /\ \A h \in Guild : HasGuild(h)' => HasGuild(h)
          /\ \A h \in Guild : ListOf(guildMap[h]) \subseteq ListOf(guildMap[h])'
          /\ c \in ListOf(guildMap[g])'
        BY <1>5, <2>1, <2>4, <2>6 DEF HasGuild, ListOf
    <2>8. ASSUME NEW d \in Text \cup Thread, HasChannel(d)'
          PROVE  \/ /\ HasChannel(d)
                    /\ d \in ListOf(guildMap[Home[d]]) => d \in ListOf(guildMap[Home[d]])'
                 \/ d \in ListOf(guildMap[Home[d]])'
        <3>1. CASE d = c
            BY <2>1, <2>7, <3>1
        <3>2. CASE d # c
            BY <1>3, <2>7, <2>8, <3>2, ConstantsAssumption DEF HasChannel, Channel
        <3> QED  BY <3>1, <3>2
    <2> QED  BY <1>2, <2>7, <2>8, KnownKept
<1> QED  BY <1>4, <1>5

\* What leaves a guild's lists leaves the map.
LEMMA DropKnown ==
    ASSUME IInv, Known, NEW p \in Proc, NEW g \in Guild, g = At(p),
           NEW rec, ChangeGuild(p, rec), Tear(p, g),
           UNCHANGED <<listed, leftOver, told>>,
           \A c \in Text \cup Thread : HasChannel(c)' /\ Home[c] # g => HasChannel(c),
           Live(p) => \A c \in Text \cup Thread : HasChannel(c)' /\ Home[c] = g =>
                          \/ HasChannel(c) /\ (c \in ListOf(guildMap[g]) => c \in ListOf(rec))
                          \/ c \in ListOf(rec)
    PROVE  Known'
<1>1. torn \subseteq torn' /\ (~Live(p) /\ HasGuild(g) => g \in torn')
    BY DEF Tear
<1>2. CASE Live(p)
    <2>1. guildMap' = [guildMap EXCEPT ![g] = rec] /\ HasGuild(g)
        BY <1>2, LiveGuild DEF ChangeGuild
    <2>2. \A h \in Guild : /\ h # g => guildMap'[h] = guildMap[h]
                           /\ h = g => guildMap'[h] = rec
        BY <2>1 DEF IInv, CacheOK
    <2>3. \A h \in Guild : HasGuild(h)' => HasGuild(h)
        BY <2>1, <2>2 DEF HasGuild
    <2>4. /\ \A h \in Guild : h # g => ListOf(guildMap[h])' = ListOf(guildMap[h])
          /\ ListOf(guildMap[g])' = ListOf(rec)
        BY <2>2 DEF ListOf
    <2>5. ASSUME NEW c \in Text \cup Thread, HasChannel(c)'
          PROVE  \/ /\ HasChannel(c)
                    /\ c \in ListOf(guildMap[Home[c]]) => c \in ListOf(guildMap[Home[c]])'
                 \/ c \in ListOf(guildMap[Home[c]])'
        <3>1. CASE Home[c] = g
            BY <1>2, <2>4, <2>5, <3>1
        <3>2. CASE Home[c] # g
            BY <2>4, <2>5, <3>2, ConstantsAssumption
        <3> QED  BY <3>1, <3>2
    <2> QED  BY <1>1, <2>3, <2>5, KnownKept
<1>3. CASE ~Live(p)
    <2>1. UNCHANGED guildMap
        BY <1>3 DEF ChangeGuild
    <2>2. /\ \A h \in Guild : HasGuild(h)' => HasGuild(h)
          /\ \A h \in Guild : ListOf(guildMap[h])' = ListOf(guildMap[h])
        BY <2>1 DEF HasGuild, ListOf
    <2>3. ASSUME NEW c \in Text \cup Thread,
                 HasChannel(c)', HasGuild(Home[c])', Home[c] \notin torn'
          PROVE  /\ HasChannel(c)
                 /\ c \in ListOf(guildMap[Home[c]]) => c \in ListOf(guildMap[Home[c]])'
        <3>1. Home[c] # g
            BY <1>1, <1>3, <2>2, <2>3
        <3> QED  BY <2>2, <2>3, <3>1, ConstantsAssumption
    <2> QED  BY <1>1, <2>2, <2>3, KnownKept
<1> QED  BY <1>2, <1>3

LEMMA ChannelRemoveKnown ==
    ASSUME IInv, Known, NEW p \in Proc, ChannelRemove(p)
    PROVE  Known'
<1>1. \/ Arg(p) \in Text \cup Thread /\ At(p) \in Guild /\ At(p) = Home[Arg(p)]
      \/ Arg(p) \in Private /\ At(p) = None
    BY CallOf, CallKinds DEF ChannelRemove, Found, IInv
<1>2. PICK c \in Channel : c = Arg(p)
    BY <1>1 DEF Channel
<1>3. channelMap' = [channelMap EXCEPT ![c] = None] /\ UNCHANGED <<listed, leftOver, told>>
    BY <1>2 DEF ChannelRemove, gateway
<1>4. \A d \in Channel : HasChannel(d)' => HasChannel(d) /\ d # c
    BY <1>3 DEF IInv, CacheOK, HasChannel
<1>5. CASE c \in Private
    <2>1. UNCHANGED <<guildMap, torn>>
        BY <1>2, <1>5 DEF ChannelRemove
    <2> QED  BY <1>3, <1>4, <2>1, KnownLists DEF HasGuild, ListOf, Channel
<1>6. CASE c \notin Private
    <2>1. PICK g \in Guild : g = At(p) /\ g = Home[c] /\ c \in Text \cup Thread
        BY <1>1, <1>2, <1>6
    <2>2. PICK rec : rec = [guildMap[g] EXCEPT !.channels = @ \ {c}, !.threads = @ \ {c}]
        OBVIOUS
    <2>3. ChangeGuild(p, rec) /\ Tear(p, g)
        BY <1>2, <1>6, <2>1, <2>2 DEF ChannelRemove
    <2>4. Live(p) => ListOf(rec) = ListOf(guildMap[g]) \ {c}
        BY <2>1, <2>2, LiveGuild DEF GuildRecord, ListOf
    <2>5. \A d \in Text \cup Thread : HasChannel(d)' => HasChannel(d) /\ d # c
        BY <1>4 DEF Channel
    <2> QED  BY <1>3, <2>1, <2>3, <2>4, <2>5, DropKnown
<1> QED  BY <1>5, <1>6

LEMMA ThreadListSyncKnown ==
    ASSUME IInv, Known, NEW p \in Proc, ThreadListSync(p)
    PROVE  Known'
<1>1. /\ At(p) \in Guild /\ Arg(p).threads \in SUBSET Thread
      /\ \A t \in Arg(p).threads : Home[t] = At(p)
    BY CallOf, CallKinds DEF ThreadListSync, Found, IInv
<1>2. PICK g \in Guild, threads \in SUBSET Thread : g = At(p) /\ threads = Arg(p).threads
    BY <1>1
<1>3. PICK had \in SUBSET Thread : had = IF Live(p) THEN guildMap[g].threads ELSE oldThreads[p]
    BY <1>2, LiveGuild DEF IInv, CallsOK, GuildRecord
<1>4. PICK kept \in SUBSET had :
          kept = {t \in had : /\ channelMap[t] # None => ~channelMap[t].archived
                              /\ Arg(p).ids # None /\ Parent[t] \notin Arg(p).ids}
    OBVIOUS
<1>5. PICK rec : rec = [guildMap[g] EXCEPT !.threads = kept \cup threads]
    OBVIOUS
<1>6. /\ channelMap' = [c \in Channel |->
                IF c \in threads THEN [NewChannel EXCEPT !.mine = c \in Arg(p).mine]
                ELSE IF c \in had \ kept THEN None
                ELSE IF c \in Arg(p).mine /\ channelMap[c] # None
                     THEN [channelMap[c] EXCEPT !.mine = TRUE]
                ELSE channelMap[c]]
      /\ ChangeGuild(p, rec) /\ Tear(p, g)
      /\ UNCHANGED <<listed, leftOver, told>>
    BY <1>2, <1>3, <1>4, <1>5 DEF ThreadListSync, gateway
<1>7. \A c \in Channel : HasChannel(c)' => c \in threads \/ (HasChannel(c) /\ c \notin had \ kept)
    BY <1>6 DEF HasChannel
<1>8. \A c \in Text \cup Thread : HasChannel(c)' /\ Home[c] # g => HasChannel(c)
    BY <1>1, <1>2, <1>7 DEF Channel
<1>9. Live(p) => /\ ListOf(rec) = guildMap[g].channels \cup kept \cup threads
                 /\ ListOf(guildMap[g]) = guildMap[g].channels \cup had
    BY <1>2, <1>3, <1>5, LiveGuild DEF GuildRecord, ListOf
<1>10. Live(p) => \A c \in Text \cup Thread : HasChannel(c)' =>
           \/ HasChannel(c) /\ (c \in ListOf(guildMap[g]) => c \in ListOf(rec))
           \/ c \in ListOf(rec)
    BY <1>7, <1>9 DEF Channel
<1> QED  BY <1>2, <1>6, <1>8, <1>10, DropKnown

\* The events, and the calls of the program.
LEMMA EventsKnown ==
    ASSUME IInv, Known, Gateway \/ \E p \in Program : ProgramCalls(p)
    PROVE  Known'
<1>1. UNCHANGED <<guildMap, channelMap, listed, leftOver, torn>>
    <2>1. ASSUME NEW p \in Program, ProgramCalls(p)
          PROVE  UNCHANGED <<guildMap, channelMap, listed, leftOver, torn>>
        <3>1. ASSUME NEW op, NEW at, NEW arg, Calls(p, op, at, arg)
              PROVE  UNCHANGED <<guildMap, channelMap, listed, leftOver, torn>>
            BY <3>1 DEF Calls, cache
        <3> QED  BY <2>1, <3>1, ZenonT(30) DEF ProgramCalls
    <2>2. CASE Gateway
        <3>1. ASSUME Ready \/ SessionLost PROVE \E hears, ops : Tell(hears, ops)
            BY <3>1, Zenon DEF Ready, SessionLost
        <3>2. ASSUME NEW g \in Guild, GuildEvents(g) PROVE \E hears, ops : Tell(hears, ops)
            <4>1. CASE BotJoins(g) \/ GuildCreate(g) \/ GuildDelete(g)
                BY <4>1 DEF BotJoins, GuildCreate, GuildDelete
            <4>2. CASE ~(BotJoins(g) \/ GuildCreate(g) \/ GuildDelete(g))
                <5>1. \E rec, ops : GuildEvent(g, rec, ops)
                    BY <3>2, <4>2 DEF GuildEvents, GuildUpdate, GuildEmojisUpdate,
                       GuildMemberAdd, GuildMemberRemove, GuildMemberUpdate, PresenceUpdate,
                       GuildRoleCreate, GuildRoleDelete, VoiceStateUpdate,
                       ThreadListSyncEvent, MemberEvent, GuildChange
                <5> QED  BY <5>1 DEF GuildEvent
            <4> QED  BY <4>1, <4>2
        <3>3. ASSUME ChannelEvents PROVE \E hears, ops : Tell(hears, ops)
            <4>1. \/ \E g, rec, ops : GuildEvent(g, rec, ops)
                  \/ \E c, list, op, m : MessageEvent(c, list, op, m)
                  \/ \E c \in Private : \E op : PrivateChannel(c, op)
                BY <3>3 DEF ChannelEvents, ChannelCreate, ChannelDelete, ThreadUpdate,
                   ThreadDelete, ThreadMemberEvent, ThreadMembersEvent, MessageCreate,
                   MessageUpdate, MessageDelete, GuildChange
            <4> QED  BY <4>1 DEF GuildEvent, MessageEvent, PrivateChannel
        <3>4. PICK hears, ops : Tell(hears, ops)
            BY <2>2, <3>1, <3>2, <3>3 DEF Gateway
        <3> QED  BY <3>4 DEF Tell, cache
    <2> QED  BY <2>1, <2>2
<1>2. told' \in [Guild -> SUBSET User]
    <2>1. told \in [Guild -> SUBSET User]
        BY DEF Known
    <2>2. \A g \in Guild, S \in SUBSET User : [told EXCEPT ![g] = S] \in [Guild -> SUBSET User]
        BY <2>1
    <2>3. ASSUME NEW p \in Program, ProgramCalls(p) PROVE UNCHANGED told
        BY <2>3 DEF ProgramCalls, Calls, gateway
    <2>4. CASE Ready \/ SessionLost
        BY <2>1, <2>4 DEF Ready, SessionLost
    <2>5. ASSUME NEW g \in Guild, GuildEvents(g)
          PROVE  UNCHANGED told \/ \E S \in SUBSET User : told' = [told EXCEPT ![g] = S]
        <3>1. CASE GuildCreate(g)
            <4>1. PICK M \in SUBSET truth[g].members : told' = [told EXCEPT ![g] = M]
                BY <3>1 DEF GuildCreate
            <4>2. M \in SUBSET User
                BY TruthTypes DEF GuildRecord
            <4> QED  BY <4>1, <4>2
        <3>2. CASE BotJoins(g) \/ GuildDelete(g) \/ GuildUpdate(g) \/ GuildEmojisUpdate(g)
            BY <3>2 DEF BotJoins, GuildDelete, GuildUpdate, GuildEmojisUpdate, GuildChange
        <3>3. ASSUME NEW u \in User,
                     \/ GuildMemberAdd(g, u) \/ GuildMemberRemove(g, u) \/ GuildMemberUpdate(g, u)
                     \/ \E i \in Item, offline \in BOOLEAN : PresenceUpdate(g, u, i, offline)
              PROVE  \E S \in SUBSET User : told' = [told EXCEPT ![g] = S]
            <4>1. told[g] \in SUBSET User
                BY <2>1
            <4>2. \/ told' = [told EXCEPT ![g] = told[g] \cup {u}]
                  \/ told' = [told EXCEPT ![g] = told[g] \ {u}]
                  \/ told' = [told EXCEPT ![g] = told[g]]
                BY <3>3 DEF GuildMemberAdd, GuildMemberRemove, GuildMemberUpdate,
                   PresenceUpdate, MemberEvent
            <4> QED  BY <4>1, <4>2
        <3>4. ASSUME NEW i \in Item,
                     \/ GuildRoleCreate(g, i) \/ GuildRoleDelete(g, i)
                     \/ \E joins \in BOOLEAN : VoiceStateUpdate(g, i, joins)
              PROVE  UNCHANGED told
            BY <3>4 DEF GuildRoleCreate, GuildRoleDelete, VoiceStateUpdate, GuildChange
        <3>5. ASSUME NEW ids, ThreadListSyncEvent(g, ids) PROVE UNCHANGED told
            BY <3>5 DEF ThreadListSyncEvent, GuildChange
        <3> QED  BY <2>5, <3>1, <3>2, <3>3, <3>4, <3>5 DEF GuildEvents
    <2>6. CASE ChannelEvents
        <3>1. UNCHANGED told
            BY <2>6 DEF ChannelEvents, ChannelCreate, ChannelDelete, ThreadUpdate, ThreadDelete,
               ThreadMemberEvent, ThreadMembersEvent, PrivateChannel, MessageCreate,
               MessageUpdate, MessageDelete, MessageEvent, GuildChange
        <3> QED  BY <2>1, <3>1
    <2> QED  BY <2>1, <2>2, <2>3, <2>4, <2>5, <2>6 DEF Gateway
<1> QED  BY <1>1, <1>2, KnownSame

LEMMA InitKnown ==
    ASSUME Init
    PROVE  Known
<1>1. /\ guildMap = [g \in Guild |-> None] /\ leftOver = {}
      /\ told = [g \in Guild |-> {}]
    BY DEF Init
<1>2. \A g \in Guild : ~HasGuild(g)
    BY <1>1 DEF HasGuild
<1>3. GuildsKnown /\ ChannelsKnown
    BY <1>2, ConstantsAssumption DEF GuildsKnown, ChannelsKnown
<1> QED  BY <1>1, <1>3 DEF Known

LEMMA NextKnown ==
    ASSUME IInv, Known, [Next]_vars
    PROVE  Known'
<1>1. ASSUME NEW p \in Proc, Look(p) PROVE Known'
    <2>1. UNCHANGED <<guildMap, channelMap, listed, leftOver, torn, told>>
        BY <1>1 DEF Look, cache, gateway
    <2> QED  BY <2>1, KnownSame DEF Known
<1>2. ASSUME NEW p \in Proc, Methods(p) PROVE Known'
    BY <1>1, <1>2, GuildAddKnown, GuildRemoveKnown, ListsKnown, ChannelKnown, onReadyKnown,
       ChannelAddKnown, ChannelRemoveKnown, ThreadListSyncKnown DEF Methods
<1>3. CASE UNCHANGED vars
    <2>1. UNCHANGED <<guildMap, channelMap, listed, leftOver, torn, told>>
        BY <1>3 DEF vars, cache, gateway
    <2> QED  BY <2>1, KnownSame DEF Known
<1> QED  BY <1>2, <1>3, EventsKnown DEF Next

LEMMA KnownHolds == Spec => []Known
<1>1. Init => Known
    BY InitKnown
<1>2. IInv /\ Known /\ [Next]_vars => Known'
    BY NextKnown
<1> QED  BY <1>1, <1>2, IInvHolds, PTL DEF Spec

\* Every variable of the cache has its type, a lookup belongs to a call, and
\* the events the client hears are of guilds it is in, through every
\* interleaving of the methods' halves.
THEOREM TypesHold == Spec => []TypeOK
<1>1. IInv /\ Known => TypeOK
    BY DEF IInv, CacheOK, CallsOK, GatewayOK, BoundsOK, Halves, Known, TypeOK
<1> QED  BY <1>1, IInvHolds, KnownHolds, PTL

\* Guilds, Members, Channels and Threads hold nothing that the maps behind
\* Guild, Member and Channel do not find, and the maps of guilds and channels
\* nothing that is in none of these lists, unless it is left over, whatever
\* goroutines interleave the halves of whatever methods, but for a guild that a
\* call changed through an object that was gone.
THEOREM AgreeHolds == Spec => []Agree
<1>1. IInv /\ Known => Agree
    <2>1. ASSUME IInv, Known PROVE Agree
        <3>1. /\ listed \subseteq {g \in Guild : HasGuild(g)}
              /\ {g \in Guild : HasGuild(g)} \subseteq listed \cup leftOver
            BY <2>1 DEF IInv, CacheOK, ListedHere, Known, GuildsKnown
        <3>2. ASSUME NEW g \in Guild \ torn, HasGuild(g)
              PROVE  /\ memberMap[g] # None
                     /\ guildMap[g].members \subseteq memberMap[g]
                     /\ \A c \in guildMap[g].channels \cup guildMap[g].threads :
                           HasChannel(c) /\ Home[c] = g
            BY <2>1, <3>2 DEF IInv, MembersAgree, ChannelsAgree, Homes, ListOf
        <3>3. ASSUME NEW g \in Guild \ torn, HasGuild(g)
              PROVE  \A c \in Text \cup Thread : Home[c] = g /\ HasChannel(c) =>
                         c \in guildMap[g].channels \cup guildMap[g].threads \cup leftOver
            BY <2>1, <3>3 DEF Known, ChannelsKnown, ListOf
        <3> QED  BY <3>1, <3>2, <3>3 DEF Agree
    <2> QED  BY <2>1
<1> QED  BY <1>1, IInvHolds, KnownHolds, PTL

-----------------------------------------------------------------------------
(* The messages of a channel: not too many, and none twice.                 *)

Tidy(list) ==
    /\ Len(list) <= MaxMessageCount
    /\ \A i, j \in DOMAIN list : list[i] = list[j] => i = j
Stored == \A c \in Channel : HasChannel(c) => Tidy(channelMap[c].messages)

\* Without drops one entry of the list, and the later ones move up.
OneLess(m, list) ==
    \E i \in 1 .. Len(list) :
        /\ list[i] = m /\ Len(Without(m, list)) = Len(list) - 1
        /\ \A j \in 1 .. Len(list) - 1 :
              Without(m, list)[j] = IF j < i THEN list[j] ELSE list[j + 1]

LEMMA WithoutEntries ==
    ASSUME NEW list \in Seq(Message), NEW m, Contains(m, list)
    PROVE  OneLess(m, list)
<1>1. PICK i \in 1 .. Len(list) : i = (CHOOSE k \in DOMAIN list : list[k] = m) /\ list[i] = m
    BY DEF Contains
<1>2. PICK s : s = SubSeq(list, 1, i - 1)
    OBVIOUS
<1>3. PICK t : t = SubSeq(list, i + 1, Len(list))
    OBVIOUS
<1>4. Without(m, list) = s \o t
    BY <1>1, <1>2, <1>3 DEF Without
<1>5. Len(list) \in Nat /\ i \in Int /\ i - 1 \in Int /\ i + 1 \in Int
    BY <1>1
<1>6. /\ s \in Seq(Message) /\ Len(s) = i - 1
      /\ \A j \in 1 .. i - 1 : s[j] = list[j]
    <2>1. \A j \in 1 .. i - 1 : list[j] \in Message
        BY <1>1
    <2>2. /\ s \in Seq(Message)
          /\ Len(s) = IF 1 <= i - 1 THEN i - 1 - 1 + 1 ELSE 0
          /\ \A j \in 1 .. i - 1 - 1 + 1 : s[j] = list[1 + j - 1]
        BY <1>2, <1>5, <2>1, SubSeqProperties
    <2>3. Len(s) = i - 1
        BY <1>1, <1>5, <2>2
    <2>4. ASSUME NEW j \in 1 .. i - 1 PROVE s[j] = list[j]
        <3>1. j \in 1 .. i - 1 - 1 + 1 /\ 1 + j - 1 = j
            BY <1>5
        <3> QED  BY <2>2, <3>1
    <2> QED  BY <2>2, <2>3, <2>4
<1>7. \A j \in i + 1 .. Len(list) : list[j] \in Message
    BY <1>1
<1>8. /\ t \in Seq(Message)
      /\ Len(t) = IF i + 1 <= Len(list) THEN Len(list) - (i + 1) + 1 ELSE 0
      /\ \A j \in 1 .. Len(list) - (i + 1) + 1 : t[j] = list[i + 1 + j - 1]
    BY <1>3, <1>5, <1>7, SubSeqProperties
<1>9. Len(t) = Len(list) - i
    BY <1>1, <1>5, <1>8
<1>10. ASSUME NEW j \in 1 .. Len(list) - i PROVE t[j] = list[i + j]
    <2>1. j \in 1 .. Len(list) - (i + 1) + 1 /\ i + 1 + j - 1 = i + j
        BY <1>5
    <2> QED  BY <1>8, <2>1
<1>11. /\ Len(s \o t) = Len(s) + Len(t)
       /\ \A j \in 1 .. Len(s) + Len(t) : (s \o t)[j] = IF j <= Len(s) THEN s[j] ELSE t[j - Len(s)]
    BY <1>6, <1>8, ConcatProperties
<1>12. Len(s) + Len(t) = Len(list) - 1
    BY <1>5, <1>6, <1>9
<1>13. ASSUME NEW j \in 1 .. Len(list) - 1
       PROVE  (s \o t)[j] = IF j < i THEN list[j] ELSE list[j + 1]
    <2>1. CASE j < i
        <3>1. j \in 1 .. i - 1 /\ j <= Len(s)
            BY <1>5, <1>6, <2>1
        <3> QED  BY <1>6, <1>11, <1>12, <2>1, <3>1
    <2>2. CASE ~(j < i)
        <3>1. j - Len(s) \in 1 .. Len(list) - i /\ ~(j <= Len(s)) /\ i + (j - Len(s)) = j + 1
            BY <1>5, <1>6, <2>2
        <3>2. (s \o t)[j] = t[j - Len(s)]
            BY <1>11, <1>12, <3>1
        <3>3. t[j - Len(s)] = list[i + (j - Len(s))]
            BY <1>10, <3>1
        <3> QED  BY <2>2, <3>1, <3>2, <3>3
    <2> QED  BY <2>1, <2>2
<1> QED  BY <1>1, <1>4, <1>11, <1>12, <1>13 DEF OneLess

\* What a list without m still contains.
LEMMA WithoutContains ==
    ASSUME NEW list \in Seq(Message), NEW m
    PROVE  /\ \A x : Contains(x, Without(m, list)) => Contains(x, list)
           /\ \A x : x # m /\ Contains(x, list) => Contains(x, Without(m, list))
           /\ Tidy(list) => Tidy(Without(m, list)) /\ ~Contains(m, Without(m, list))
<1>1. CASE ~Contains(m, list)
    <2>1. Without(m, list) = list
        BY <1>1 DEF Without
    <2> QED  BY <1>1, <2>1
<1>2. CASE Contains(m, list)
    <2>1. PICK i \in 1 .. Len(list) :
              /\ list[i] = m /\ Len(Without(m, list)) = Len(list) - 1
              /\ \A j \in 1 .. Len(list) - 1 :
                    Without(m, list)[j] = IF j < i THEN list[j] ELSE list[j + 1]
        <3>1. OneLess(m, list)
            BY <1>2, WithoutEntries
        <3> QED  BY <3>1 DEF OneLess
    <2>2. PICK w \in Seq(Message) : w = Without(m, list)
        BY WithoutType
    <2>3. /\ Len(list) \in Nat /\ DOMAIN list = 1 .. Len(list)
          /\ DOMAIN w = 1 .. Len(list) - 1
          /\ \A j \in 1 .. Len(list) - 1 : w[j] = IF j < i THEN list[j] ELSE list[j + 1]
        BY <2>1, <2>2
    <2>4. ASSUME NEW x, Contains(x, w) PROVE Contains(x, list)
        <3>1. PICK k \in 1 .. Len(list) - 1 : w[k] = x
            BY <2>3, <2>4 DEF Contains
        <3>2. k \in 1 .. Len(list) /\ k + 1 \in 1 .. Len(list)
            BY <2>3
        <3>3. list[k] = x \/ list[k + 1] = x
            BY <2>3, <3>1
        <3> QED  BY <2>3, <3>2, <3>3 DEF Contains
    <2>5. ASSUME NEW x, x # m, Contains(x, list) PROVE Contains(x, w)
        <3>1. PICK k \in 1 .. Len(list) : list[k] = x
            BY <2>3, <2>5 DEF Contains
        <3>2. CASE k < i
            <4>1. k \in 1 .. Len(list) - 1 /\ w[k] = x
                BY <2>1, <2>3, <3>1, <3>2
            <4> QED  BY <2>3, <4>1 DEF Contains
        <3>3. CASE k > i
            <4>1. k - 1 \in 1 .. Len(list) - 1 /\ w[k - 1] = x
                BY <2>1, <2>3, <3>1, <3>3
            <4> QED  BY <2>3, <4>1 DEF Contains
        <3> QED  BY <2>1, <2>5, <3>1, <3>2, <3>3
    <2>6. ASSUME Tidy(list) PROVE Tidy(w) /\ ~Contains(m, w)
        <3>1. Len(w) <= MaxMessageCount
            BY <2>1, <2>2, <2>3, <2>6, ConstantsAssumption DEF Tidy
        <3>2. \A j, k \in DOMAIN w : w[j] = w[k] => j = k
            <4>1. ASSUME NEW j \in DOMAIN w, NEW k \in DOMAIN w, w[j] = w[k] PROVE j = k
                <5>1. PICK jj \in 1 .. Len(list) : jj = IF j < i THEN j ELSE j + 1
                    BY <2>3
                <5>2. PICK kk \in 1 .. Len(list) : kk = IF k < i THEN k ELSE k + 1
                    BY <2>3
                <5>3. w[j] = list[jj] /\ w[k] = list[kk]
                    BY <2>3, <5>1, <5>2
                <5>4. jj = kk
                    BY <2>3, <2>6, <4>1, <5>3 DEF Tidy
                <5> QED  BY <2>3, <5>1, <5>2, <5>4
            <4> QED  BY <4>1
        <3>3. ~Contains(m, w)
            BY <2>1, <2>3, <2>6 DEF Tidy, Contains
        <3> QED  BY <3>1, <3>2, <3>3 DEF Tidy
    <2> QED  BY <2>2, <2>4, <2>5, <2>6
<1> QED  BY <1>1, <1>2

\* A message that comes is put at the end of the newest ones.
LEMMA NewestTidy ==
    ASSUME NEW list \in Seq(Message), NEW m \in Message, Tidy(list), ~Contains(m, list)
    PROVE  /\ Tidy(Newest(Append(list, m)))
           /\ \A x : Contains(x, Newest(Append(list, m))) => Contains(x, list) \/ x = m
<1>1. MaxMessageCount \in Nat \ {0}
    BY ConstantsAssumption
<1>2. PICK s \in Seq(Message) : s = Append(list, m)
    <2>1. Append(list, m) \in Seq(Message)
        OBVIOUS
    <2> QED  BY <2>1
<1>3. /\ Len(list) \in Nat /\ Len(s) = Len(list) + 1 /\ DOMAIN s = 1 .. Len(list) + 1
      /\ DOMAIN list = 1 .. Len(list)
      /\ \A j \in 1 .. Len(list) : s[j] = list[j]
      /\ s[Len(list) + 1] = m
    BY <1>2
<1>4. \A i, j \in DOMAIN s : s[i] = s[j] => i = j
    BY <1>3 DEF Tidy, Contains
<1>5. \A x : Contains(x, s) => Contains(x, list) \/ x = m
    BY <1>3 DEF Contains
<1>6. CASE Len(s) > MaxMessageCount
    <2>1. PICK k \in 1 .. Len(s) : k = Len(s) - MaxMessageCount + 1
        <3>1. Len(s) - MaxMessageCount + 1 \in 1 .. Len(s)
            BY <1>1, <1>3, <1>6
        <3> QED  BY <3>1
    <2>2. PICK w : w = SubSeq(s, k, Len(s))
        OBVIOUS
    <2>3. Newest(s) = w
        BY <1>6, <2>1, <2>2 DEF Newest
    <2>4. /\ w \in Seq(Message)
          /\ Len(w) = IF k <= Len(s) THEN Len(s) - k + 1 ELSE 0
          /\ \A j \in 1 .. Len(s) - k + 1 : w[j] = s[k + j - 1]
        <3>1. \A j \in k .. Len(s) : s[j] \in Message
            BY <2>1
        <3>2. k \in Int /\ Len(s) \in Int
            BY <1>3
        <3> QED  BY <2>2, <3>1, <3>2, SubSeqProperties
    <2>5. Len(w) = MaxMessageCount /\ DOMAIN w = 1 .. MaxMessageCount
        BY <1>1, <1>3, <2>1, <2>4
    <2>6. \A j \in 1 .. MaxMessageCount : w[j] = s[k + j - 1] /\ k + j - 1 \in DOMAIN s
        BY SMTT(20), <1>1, <1>3, <2>1, <2>4
    <2>7. Tidy(w)
        <3>1. \A i, j \in DOMAIN w : w[i] = w[j] => i = j
            <4>1. ASSUME NEW i \in DOMAIN w, NEW j \in DOMAIN w, w[i] = w[j] PROVE i = j
                <5>1. k + i - 1 = k + j - 1
                    BY <1>4, <2>5, <2>6, <4>1
                <5> QED  BY <1>1, <2>5, <5>1
            <4> QED  BY <4>1
        <3> QED  BY <1>1, <2>5, <3>1 DEF Tidy
    <2>8. \A x : Contains(x, w) => Contains(x, s)
        BY <2>5, <2>6 DEF Contains
    <2> QED  BY <1>2, <1>5, <2>3, <2>7, <2>8
<1>7. CASE ~(Len(s) > MaxMessageCount)
    <2>1. Newest(s) = s
        BY <1>7 DEF Newest
    <2> QED  BY <1>1, <1>2, <1>3, <1>4, <1>5, <1>7, <2>1 DEF Tidy
<1> QED  BY <1>6, <1>7

LEMMA EmptyTidy == Tidy(<<>>)
BY ConstantsAssumption DEF Tidy

\* A step that gives a channel of the map no messages, or leaves them as they
\* are or tidy.
LEMMA StoredStep ==
    ASSUME Stored,
           \A c \in Channel : HasChannel(c)' =>
               \/ HasChannel(c) /\ channelMap'[c].messages = channelMap[c].messages
               \/ channelMap'[c].messages = <<>>
               \/ Tidy(channelMap'[c].messages)
    PROVE  Stored'
<1>1. ASSUME NEW c \in Channel, HasChannel(c)' PROVE Tidy(channelMap'[c].messages)
    BY <1>1, EmptyTidy DEF Stored
<1>2. \A c \in Channel : HasChannel(c)' => Tidy(channelMap'[c].messages)
    BY <1>1
<1> QED  BY <1>2 DEF Stored, Tidy

\* A change of one channel that p looked up.
LEMMA StoredChange ==
    ASSUME IInv, Stored, NEW p \in Proc, NEW rec, ChangeChannel(p, rec), At(p) \in Channel,
           HasChannel(At(p)) => \/ rec.messages = channelMap[At(p)].messages
                                \/ Tidy(rec.messages)
    PROVE  Stored'
<1>1. CASE Live(p)
    <2>1. HasChannel(At(p))
        BY <1>1 DEF IInv, Live, Halves
    <2>2. channelMap' = [channelMap EXCEPT ![At(p)] = rec]
        BY <1>1 DEF ChangeChannel
    <2>3. \A c \in Channel : /\ c # At(p) => channelMap'[c] = channelMap[c]
                             /\ c = At(p) => channelMap'[c] = rec
        BY <2>2 DEF IInv, CacheOK
    <2> QED  BY <2>1, <2>3, StoredStep DEF HasChannel
<1>2. CASE ~Live(p)
    <2>1. UNCHANGED channelMap
        BY <1>2 DEF ChangeChannel
    <2> QED  BY <2>1, StoredStep DEF HasChannel
<1> QED  BY <1>1, <1>2

LEMMA StoredNext ==
    ASSUME IInv, Stored, [Next]_vars
    PROVE  Stored'
<1>1. ASSUME UNCHANGED channelMap PROVE Stored'
    BY <1>1, StoredStep DEF HasChannel
<1>2. ASSUME NEW p \in Proc, Methods(p) PROVE Stored'
    <2>1. CASE UNCHANGED channelMap
        BY <1>1, <2>1
    <2>2. \/ UNCHANGED channelMap
          \/ GuildAdd(p) \/ ChannelAdd(p) \/ ChannelRemove(p) \/ ThreadListSync(p)
          \/ ThreadMembersUpdate(p) \/ ThreadMemberUpdate(p)
          \/ MessageAdd(p) \/ MessageRemove(p) \/ onReady(p)
        BY <1>2 DEF Methods, Look, cache, GuildRemove, MemberCount, MemberAdd, MemberRemove,
           RoleAdd, RoleRemove, EmojiAdd, PresenceRemove, voiceStateUpdate, SetEmojis,
           SetItems, PresenceAdd
    <2>3. CASE GuildAdd(p)
        <3>1. \A c \in Channel : \/ channelMap'[c] = NewChannel
                                 \/ channelMap'[c] = channelMap[c]
            BY <2>3 DEF GuildAdd
        <3> QED  BY <3>1, StoredStep DEF HasChannel, NewChannel
    <2>4. CASE ChannelAdd(p)
        <3>1. NextCall(p, "ChannelAdd")
            BY <2>4 DEF ChannelAdd
        <3>2. At(p) \in Channel
            BY <3>1, CallOf, CallKinds DEF IInv
        <3>3. PICK c \in Channel : c = At(p)
            BY <3>2
        <3>4. PICK old, rec : /\ rec = [NewChannel EXCEPT !.messages = old.messages, !.archived = Arg(p)]
                              /\ old = IF HasChannel(c) THEN channelMap[c] ELSE NewChannel
            OBVIOUS
        <3>5. \/ UNCHANGED channelMap
              \/ channelMap' = [channelMap EXCEPT ![c] = rec]
            <4>1. CASE HasChannel(c)
                BY <2>4, <3>3, <3>4, <4>1 DEF ChannelAdd, IInv, CacheOK
            <4>2. CASE ~HasChannel(c)
                BY <2>4, <3>3, <3>4, <4>2 DEF ChannelAdd, IInv, CacheOK
            <4> QED  BY <4>1, <4>2
        <3>6. rec.messages = old.messages
            BY <3>4 DEF NewChannel
        <3>7. \A d \in Channel : \/ channelMap'[d] = channelMap[d]
                                 \/ d = c /\ channelMap'[d] = rec
            BY <3>5 DEF IInv, CacheOK
        <3>8. old.messages = IF HasChannel(c) THEN channelMap[c].messages ELSE <<>>
            BY <3>4 DEF NewChannel
        <3> QED  BY <3>6, <3>7, <3>8, StoredStep DEF HasChannel
    <2>5. CASE ChannelRemove(p)
        <3>1. \A c \in Channel : channelMap'[c] = None \/ channelMap'[c] = channelMap[c]
            BY <2>5 DEF ChannelRemove, IInv, CacheOK
        <3> QED  BY <3>1, StoredStep DEF HasChannel
    <2>6. CASE ThreadListSync(p)
        <3>1. \A c \in Channel :
                  \/ channelMap'[c] = [NewChannel EXCEPT !.mine = c \in Arg(p).mine]
                  \/ channelMap'[c] = None
                  \/ channelMap[c] # None /\ channelMap'[c] = [channelMap[c] EXCEPT !.mine = TRUE]
                  \/ channelMap'[c] = channelMap[c]
            BY <2>6, Zenon DEF ThreadListSync
        <3>2. ASSUME NEW b PROVE [NewChannel EXCEPT !.mine = b].messages = <<>>
            BY DEF NewChannel
        <3>3. \A c \in Channel : HasChannel(c)' =>
                  \/ channelMap'[c].messages = <<>>
                  \/ HasChannel(c) /\ channelMap'[c].messages = channelMap[c].messages
            <4>1. ASSUME NEW c \in Channel, HasChannel(c)'
                  PROVE  \/ channelMap'[c].messages = <<>>
                         \/ HasChannel(c) /\ channelMap'[c].messages = channelMap[c].messages
                <5>1. CASE channelMap'[c] = [NewChannel EXCEPT !.mine = c \in Arg(p).mine]
                    BY <3>2, <5>1, Zenon
                <5>2. CASE channelMap'[c] = None
                    BY <4>1, <5>2 DEF HasChannel
                <5>3. CASE channelMap[c] # None /\ channelMap'[c] = [channelMap[c] EXCEPT !.mine = TRUE]
                    <6>1. HasChannel(c) /\ channelMap[c] \in ChannelRecord
                        BY <5>3, Entries DEF IInv, HasChannel
                    <6> QED  BY <5>3, <6>1 DEF ChannelRecord
                <5>4. CASE channelMap'[c] = channelMap[c]
                    BY <4>1, <5>4 DEF HasChannel
                <5> QED  BY <3>1, <5>1, <5>2, <5>3, <5>4
            <4> QED  BY <4>1
        <3> QED  BY <3>3, StoredStep
    <2>7. CASE ThreadMembersUpdate(p)
        <3>1. NextCall(p, "ThreadMembersUpdate") /\ At(p) \in Channel
            <4>1. NextCall(p, "ThreadMembersUpdate")
                BY <2>7 DEF ThreadMembersUpdate, Found
            <4> QED  BY <4>1, CallOf, CallKinds DEF IInv, Channel
        <3>2. PICK rec, S : /\ ChangeChannel(p, rec)
                            /\ rec = [channelMap[At(p)] EXCEPT !.members = S]
            BY <2>7 DEF ThreadMembersUpdate
        <3>3. HasChannel(At(p)) => rec.messages = channelMap[At(p)].messages
            BY <3>1, <3>2, Entries DEF IInv, ChannelRecord
        <3> QED  BY <3>1, <3>2, <3>3, StoredChange
    <2>8. CASE ThreadMemberUpdate(p)
        <3>1. NextCall(p, "ThreadMemberUpdate")
            BY <2>8 DEF ThreadMemberUpdate, Found
        <3>2. At(p) \in Channel
            BY <3>1, CallOf, CallKinds DEF IInv, Channel
        <3>3. PICK rec : ChangeChannel(p, rec) /\ rec = [channelMap[At(p)] EXCEPT !.mine = TRUE]
            BY <2>8 DEF ThreadMemberUpdate
        <3>4. HasChannel(At(p)) => rec.messages = channelMap[At(p)].messages
            BY <3>2, <3>3, Entries DEF IInv, ChannelRecord
        <3> QED  BY <3>2, <3>3, <3>4, StoredChange
    <2>9. CASE MessageAdd(p)
        <3>1. NextCall(p, "MessageAdd")
            BY <2>9 DEF MessageAdd, Found
        <3>2. At(p) \in Channel /\ Arg(p) \in Message
            BY <3>1, CallOf, CallKinds DEF IInv, MessageOps
        <3>3. PICK old : old = channelMap[At(p)]
            OBVIOUS
        <3>4. PICK list : list = IF Contains(Arg(p), old.messages) THEN old.messages
                                 ELSE Newest(Append(old.messages, Arg(p)))
            OBVIOUS
        <3>5. ChangeChannel(p, [old EXCEPT !.messages = list])
            BY <2>9, <3>3, <3>4 DEF MessageAdd
        <3>6. HasChannel(At(p)) => old \in ChannelRecord /\ Tidy(old.messages)
            BY <3>2, <3>3, Entries DEF IInv, Stored
        <3>7. HasChannel(At(p)) => old.messages \in Seq(Message)
            BY <3>6 DEF ChannelRecord
        <3>8. HasChannel(At(p)) => Tidy(list)
            BY <3>2, <3>4, <3>6, <3>7, NewestTidy
        <3>9. HasChannel(At(p)) => [old EXCEPT !.messages = list].messages = list
            BY <3>6 DEF ChannelRecord
        <3> QED  BY <3>2, <3>5, <3>8, <3>9, StoredChange
    <2>10. CASE MessageRemove(p)
        <3>1. NextCall(p, "MessageRemove")
            BY <2>10 DEF MessageRemove, Found
        <3>2. At(p) \in Channel
            BY <3>1, CallOf, CallKinds DEF IInv, MessageOps
        <3>3. PICK old : old = channelMap[At(p)]
            OBVIOUS
        <3>4. PICK list : list = Without(Arg(p), old.messages)
            OBVIOUS
        <3>5. ChangeChannel(p, [old EXCEPT !.messages = list])
            BY <2>10, <3>3, <3>4 DEF MessageRemove
        <3>6. HasChannel(At(p)) => old \in ChannelRecord /\ Tidy(old.messages)
            BY <3>2, <3>3, Entries DEF IInv, Stored
        <3>7. HasChannel(At(p)) => old.messages \in Seq(Message)
            BY <3>6 DEF ChannelRecord
        <3>8. HasChannel(At(p)) => Tidy(list)
            BY <3>4, <3>6, <3>7, WithoutContains
        <3>9. HasChannel(At(p)) => [old EXCEPT !.messages = list].messages = list
            BY <3>6 DEF ChannelRecord
        <3> QED  BY <3>2, <3>5, <3>8, <3>9, StoredChange
    <2>11. CASE onReady(p)
        <3>1. \A c \in Channel : channelMap'[c] = NewChannel \/ channelMap'[c] = channelMap[c]
            BY <2>11 DEF onReady
        <3> QED  BY <3>1, StoredStep DEF HasChannel, NewChannel
    <2> QED  BY <2>1, <2>2, <2>3, <2>4, <2>5, <2>6, <2>7, <2>8, <2>9, <2>10, <2>11
<1>3. CASE Gateway
    <2>1. UNCHANGED cache
        BY ZenonT(30), <1>3 DEF Gateway, Ready, SessionLost, GuildEvents, BotJoins, GuildCreate,
           GuildDelete, GuildUpdate, GuildEmojisUpdate, MemberEvent, GuildMemberAdd, GuildMemberRemove,
           GuildMemberUpdate, PresenceUpdate, GuildRoleCreate, GuildRoleDelete,
           VoiceStateUpdate, ThreadListSyncEvent, ChannelEvents, ChannelCreate,
           ChannelDelete, ThreadUpdate, ThreadDelete, ThreadMemberEvent,
           ThreadMembersEvent, PrivateChannel, MessageCreate, MessageUpdate,
           MessageDelete, MessageEvent, GuildChange, GuildEvent, Tell
    <2> QED  BY <1>1, <2>1 DEF cache
<1>4. ASSUME NEW p \in Program, ProgramCalls(p) PROVE Stored'
    <2>1. UNCHANGED cache
        BY <1>4 DEF ProgramCalls, Calls
    <2> QED  BY <1>1, <2>1 DEF cache
<1>5. CASE UNCHANGED vars
    BY <1>1, <1>5 DEF vars, cache
<1> QED  BY <1>2, <1>3, <1>4, <1>5 DEF Next

-----------------------------------------------------------------------------
(* While the program leaves the cache to the events, what the loop has still *)
(* to do is all that a guild the client hears of differs by from the truth.  *)

\* The first and the last call of the loop, and the guild a call is about.
NoCall == Op("none", None, None)
FirstCall == IF todo[loop] = <<>> THEN NoCall ELSE Head(todo[loop])
LastCall == IF todo[loop] = <<>> THEN NoCall ELSE todo[loop][Len(todo[loop])]
GuildOf(x) == IF x.at \in Text \cup Thread THEN Home[x.at] ELSE x.at
For(g, x) == IF GuildOf(x) = g THEN x ELSE NoCall

\* What a call makes of the count and of the lists of its guild.
CountThen(x, n) == IF x.op = "MemberCount" THEN n + x.arg ELSE n
MembersThen(x, S) ==
    IF x.op = "MemberAdd" THEN S \cup {x.arg}
    ELSE IF x.op = "MemberRemove" THEN S \ {x.arg} ELSE S
ChannelsThen(x, S) ==
    IF x.op = "ChannelAdd" /\ x.at \in Text THEN S \cup {x.at}
    ELSE IF x.op = "ChannelRemove" THEN S \ {x.arg} ELSE S
ItemsThen(x, S) ==
    IF x.op \in {"RoleAdd", "PresenceAdd"} THEN S \cup {x.arg}
    ELSE IF x.op = "RoleRemove" THEN S \ {x.arg}
    ELSE IF x.op = "voiceStateUpdate"
         THEN IF x.arg.joins THEN S \cup {x.arg.item} ELSE S \ {x.arg.item}
    ELSE IF x.op = "SetEmojis" THEN x.arg
    ELSE IF x.op = "GuildAdd" THEN IF x.arg.items = None THEN S ELSE x.arg.items
    ELSE S

\* A thread that a call will archive or remove, and one that it will add.
Going(x, t) == \/ x.op = "ChannelAdd" /\ x.at = t /\ x.arg
               \/ x.op = "ChannelRemove" /\ x.arg = t
Coming(x, t) == x.op = "ChannelAdd" /\ x.at = t /\ ~x.arg

\* The cached guild g is the true one, but for the call x, or for y.
CountRight(g, x) == CountThen(x, guildMap[g].count) = Cardinality(truth[g].members) + 1
MembersRight(g, y) ==
    "members" \in Track =>
        /\ guildMap[g].members = memberMap[g]
        /\ told[g] \subseteq MembersThen(y, memberMap[g])
        /\ MembersThen(y, memberMap[g]) \subseteq truth[g].members
ChannelsRight(g, x) ==
    "channels" \in Track =>
        /\ truth[g].channels = ChannelsThen(x, guildMap[g].channels)
        /\ \A c \in Text : x.op = "ChannelAdd" /\ x.at = c /\ HasChannel(c)
                           => c \in guildMap[g].channels
ThreadsRight(g, x) ==
    "threads" \in Track =>
        /\ \A t \in guildMap[g].threads :
              \/ channelMap[t].archived \/ t \in truth[g].threads \/ Going(x, t)
              \/ Parent[t] \notin truth[g].channels
        /\ \A t \in truth[g].threads :
              (HasChannel(t) /\ ~channelMap[t].archived) \/ Coming(x, t)
ItemsRight(g, x) == "items" \in Track => truth[g].items = ItemsThen(x, guildMap[g].items)
MessagesRight(g, x) ==
    \A c \in ListOf(guildMap[g]), m \in Message :
        Contains(m, channelMap[c].messages) =>
            \/ Contains(m, messages[c])
            \/ x.op = "MessageRemove" /\ x.at = c /\ x.arg = m
Right(g, x, y) ==
    /\ HasGuild(g)
    /\ CountRight(g, x) /\ MembersRight(g, y) /\ ChannelsRight(g, x)
    /\ ThreadsRight(g, x) /\ ItemsRight(g, x) /\ MessagesRight(g, x)
RightNow(g) == Right(g, For(g, FirstCall), For(g, LastCall))

\* The guild has come, and nothing of it counts until it is handled.
Fresh(g) == todo[loop] = <<Op("GuildAdd", g, Whole(g, told[g]))>>

\* What the loop has to do is what the last event was about.
GuildCallOps == {"MemberCount", "MemberAdd", "MemberRemove", "RoleAdd", "RoleRemove",
                 "PresenceAdd", "voiceStateUpdate", "SetEmojis", "GuildAdd", "ThreadListSync"}
Due(x) ==
    /\ x.op \in GuildCallOps => x.at \in heard
    /\ x.op \notin {"EmojiAdd", "PresenceRemove"}
    /\ x.op = "GuildAdd" => \/ /\ x.arg = Whole(x.at, told[x.at]) /\ Len(todo[loop]) = 1
                               /\ told[x.at] \subseteq truth[x.at].members
                            \/ \E E \in (SUBSET Item) \cup {None} : x.arg = Bare(E)
    /\ x.op = "GuildRemove" => x.at \notin heard
    /\ x.op = "Ready" => heard = {}
    /\ x.op = "ChannelAdd" /\ x.at \in Text => x.at \in used
    /\ x.op = "ChannelAdd" /\ x.at \in Thread =>
          (x.arg <=> x.at \notin truth[Home[x.at]].threads) /\ Parent[x.at] \in used
    /\ x.op = "ChannelRemove" /\ x.arg \in Thread => x.arg \notin truth[x.at].threads
    /\ x.op = "ThreadListSync" =>
          /\ x.arg.threads = {t \in truth[x.at].threads : x.arg.ids = None \/ Parent[t] \in x.arg.ids}
          /\ x.arg.mine \subseteq truth[x.at].threads
    /\ x.op = "ThreadMembersUpdate" => /\ x.arg.named \subseteq truth[Home[x.at]].members
                                       /\ x.arg.presences \subseteq truth[Home[x.at]].items
    /\ x.op = "MessageAdd" => Contains(x.arg, messages[x.at])
\* Then there is nothing more, or a member of the same guild.
ThenDue ==
    \/ todo[loop] = <<>> \/ Len(todo[loop]) = 1
    \/ /\ Len(todo[loop]) = 2
       /\ FirstCall.op \in {"MemberCount", "PresenceAdd"}
       /\ LastCall.op \in MemberOps /\ LastCall.at \in heard /\ LastCall.at = FirstCall.at

\* An id of a channel that the cache or the gateway knows was given, and that of
\* the channel of a thread.
Given ==
    /\ \A c \in Text : HasChannel(c) \/ c \in truth[Home[c]].channels => c \in used
    /\ \A t \in Thread : HasChannel(t) \/ t \in truth[Home[t]].threads => Parent[t] \in used

Alone == /\ \A p \in Program : todo[p] = <<>>
         /\ looked[loop] # "gone" /\ torn = {}

QInv == calls = 0 =>
    /\ Alone /\ Due(FirstCall) /\ ThenDue /\ Given
    /\ \A g \in heard : Fresh(g) \/ RightNow(g)

\* The first call of the loop.
LEMMA FirstOf ==
    ASSUME IInv, NEW op, NextCall(loop, op)
    PROVE  /\ FirstCall \in Call /\ FirstCall.op = op
           /\ At(loop) = FirstCall.at /\ Arg(loop) = FirstCall.arg
           /\ FirstCall = Head(todo[loop]) /\ todo[loop] # <<>>
BY CallOf DEF IInv, FirstCall, NextCall, Proc

\* No call changes nothing, and is about no guild.
LEMMA Nothing ==
    /\ NoCall.op = "none" /\ \A g \in Guild : GuildOf(NoCall) # g
    /\ \A n : CountThen(NoCall, n) = n
    /\ \A S : /\ MembersThen(NoCall, S) = S /\ ChannelsThen(NoCall, S) = S
              /\ ItemsThen(NoCall, S) = S
    /\ \A t : ~Going(NoCall, t) /\ ~Coming(NoCall, t)
<1>1. NoCall.op = "none" /\ NoCall.at = None
    BY DEF NoCall, Op
<1>2. \A g \in Guild : GuildOf(NoCall) # g
    BY <1>1, ConstantsAssumption DEF GuildOf, Channel
<1> QED  BY <1>1, <1>2 DEF CountThen, MembersThen, ChannelsThen, ItemsThen, Going, Coming

\* What a call about a member leaves alone.
LEMMA OnlyMembers ==
    ASSUME NEW y, y.op \in MemberOps
    PROVE  /\ \A n : CountThen(y, n) = n
           /\ \A S : ChannelsThen(y, S) = S /\ ItemsThen(y, S) = S
           /\ \A t : ~Going(y, t) /\ ~Coming(y, t)
           /\ y.op # "ChannelAdd" /\ y.op # "MessageRemove"
BY DEF MemberOps, CountThen, ChannelsThen, ItemsThen, Going, Coming

\* A call of the loop, with a guild the client hears of; nothing is gone.
LEMMA LoopLooks ==
    ASSUME IInv, calls = 0, QInv, NEW op, Found(loop, op)
    PROVE  Live(loop)
<1>1. loop \in Proc
    BY DEF Proc
<1> QED  BY <1>1 DEF Found, QInv, Alone, Live, IInv, CallsOK

\* The rest of a list of one call, or of two.
LEMMA ShortLists ==
    ASSUME NEW s \in Seq(Call)
    PROVE  /\ Len(s) = 1 => Tail(s) = <<>> /\ s[Len(s)] = Head(s)
           /\ Len(s) = 2 => /\ Tail(s) # <<>> /\ Len(Tail(s)) = 1
                            /\ Head(Tail(s)) = s[2] /\ Tail(s)[Len(Tail(s))] = s[2]
                            /\ s[Len(s)] = s[2]
<1>1. CASE Len(s) = 1
    <2>1. s # <<>>
        BY <1>1
    <2>2. Tail(s) \in Seq(Call) /\ Len(Tail(s)) = 0
        BY <1>1, <2>1, HeadTailProperties
    <2>3. Tail(s) = <<>>
        BY <2>2, EmptySeq
    <2> QED  BY <1>1, <2>1, <2>3
<1>2. CASE Len(s) = 2
    <2>1. s # <<>>
        BY <1>2
    <2>2. /\ Tail(s) \in Seq(Call) /\ Len(Tail(s)) = 1
          /\ \A i \in 1 .. Len(Tail(s)) : Tail(s)[i] = s[i + 1]
        BY <1>2, <2>1, HeadTailProperties
    <2>3. PICK t \in Seq(Call) : t = Tail(s)
        BY <2>2
    <2>4. Len(t) = 1 /\ t[1] = s[2]
        BY <2>2, <2>3
    <2>5. t # <<>>
        <3>1. Len(<<>>) = 0 /\ Len(t) # 0
            BY <2>4
        <3> QED  BY <3>1, Zenon
    <2>6. Head(t) = t[1]
        BY <2>5
    <2> QED  BY <1>2, <2>3, <2>4, <2>5, <2>6
<1> QED  BY <1>1, <1>2

\* When the loop returns from its first call, none is left or a member's.
LEMMA LoopReturns ==
    ASSUME IInv, calls = 0, QInv, todo[loop] # <<>>,
           todo' = [todo EXCEPT ![loop] = Tail(@)], UNCHANGED gateway
    PROVE  /\ FirstCall' = LastCall' /\ Due(FirstCall)' /\ ThenDue'
           /\ \/ FirstCall' = NoCall /\ FirstCall = LastCall
              \/ /\ FirstCall' = LastCall /\ LastCall.op \in MemberOps
                 /\ FirstCall.op \in {"MemberCount", "PresenceAdd"}
                 /\ GuildOf(LastCall) = GuildOf(FirstCall)
<1>1. loop \in Proc /\ todo \in [Proc -> Seq(Call)] /\ todo[loop] \in Seq(Call)
    BY DEF Proc, IInv, CallsOK
<1>2. PICK s \in Seq(Call) : s = todo[loop]
    BY <1>1
<1>3. todo'[loop] = Tail(s)
    BY <1>1, <1>2
<1>4. UNCHANGED <<truth, heard, used, messages, told>>
    BY DEF gateway
<1>5. CASE Len(s) = 1
    <2>1. Tail(s) = <<>> /\ s[Len(s)] = Head(s)
        BY <1>5, ShortLists
    <2>2. FirstCall' = NoCall /\ LastCall' = NoCall /\ FirstCall = LastCall
        BY <1>2, <1>3, <2>1 DEF FirstCall, LastCall
    <2>3. ThenDue'
        BY <1>3, <2>1 DEF ThenDue
    <2>4. Due(FirstCall)'
        BY <2>2, Nothing DEF Due, GuildCallOps
    <2> QED  BY <2>2, <2>3, <2>4
<1>6. CASE Len(s) # 1
    <2>1. /\ Len(s) = 2 /\ FirstCall.op \in {"MemberCount", "PresenceAdd"}
          /\ LastCall.op \in MemberOps /\ LastCall.at \in heard /\ LastCall.at = FirstCall.at
        BY <1>2, <1>6 DEF QInv, ThenDue
    <2>2. /\ Tail(s) # <<>> /\ Len(Tail(s)) = 1
          /\ Head(Tail(s)) = s[2] /\ Tail(s)[Len(Tail(s))] = s[2]
          /\ s[Len(s)] = s[2]
        BY <2>1, ShortLists
    <2>3. FirstCall' = s[2] /\ LastCall' = s[2] /\ LastCall = s[2]
        BY <1>2, <1>3, <2>1, <2>2 DEF FirstCall, LastCall
    <2>4. ThenDue'
        BY <1>3, <2>2 DEF ThenDue
    <2>5. Due(FirstCall)'
        BY <1>4, <2>1, <2>3 DEF Due, MemberOps, GuildCallOps
    <2>6. GuildOf(LastCall) = GuildOf(FirstCall)
        BY <2>1 DEF GuildOf
    <2> QED  BY <2>1, <2>3, <2>4, <2>5, <2>6
<1> QED  BY <1>5, <1>6

\* A guild that a step leaves alone, and that no call is about, stays right.
LEMMA RightStays ==
    ASSUME IInv, NEW g \in Guild, Right(g, NoCall, NoCall),
           guildMap'[g] = guildMap[g], memberMap'[g] = memberMap[g], truth'[g] = truth[g],
           told'[g] = told[g],
           \A c \in Text \cup Thread : Home[c] = g =>
               channelMap'[c] = channelMap[c] /\ messages'[c] = messages[c]
    PROVE  Right(g, NoCall, NoCall)'
<1>1. HasGuild(g) /\ HasGuild(g)'
    BY DEF Right, HasGuild
<1>2. /\ \A c \in ListOf(guildMap[g]) : c \in Text \cup Thread /\ Home[c] = g
      /\ \A t \in guildMap[g].threads \cup truth[g].threads : t \in Text \cup Thread /\ Home[t] = g
    <2>1. guildMap[g] \in GuildRecord /\ truth[g] \in GuildRecord
        BY <1>1, Entries DEF IInv, GatewayOK
    <2> QED  BY <1>1, <2>1 DEF IInv, Homes, ListOf, GuildRecord
<1>3. CountRight(g, NoCall)'
    BY DEF Right, CountRight
<1>4. MembersRight(g, NoCall)'
    BY DEF Right, MembersRight
<1>5. ChannelsRight(g, NoCall)'
    BY Nothing DEF Right, ChannelsRight
<1>6. ThreadsRight(g, NoCall)'
    BY <1>2 DEF Right, ThreadsRight, HasChannel
<1>7. ItemsRight(g, NoCall)'
    BY DEF Right, ItemsRight
<1>8. MessagesRight(g, NoCall)'
    <2>1. ListOf(guildMap[g])' = ListOf(guildMap[g])
        BY DEF ListOf
    <2>2. \A c \in ListOf(guildMap[g]) : channelMap'[c] = channelMap[c] /\ messages'[c] = messages[c]
        BY <1>2
    <2> QED  BY <2>1, <2>2 DEF Right, MessagesRight
<1> QED  BY <1>1, <1>3, <1>4, <1>5, <1>6, <1>7, <1>8 DEF Right

\* A step of the loop that ends its first call: of the other guilds nothing
\* changes, and the call's guild is right without it.
LEMMA LoopStep ==
    ASSUME IInv, calls = 0, QInv, todo[loop] # <<>>,
           todo' = [todo EXCEPT ![loop] = Tail(@)],
           looked' \in [Proc -> {"no", "live", "gone"}], looked'[loop] # "gone",
           UNCHANGED <<gateway, calls, torn>>,
           NEW g, g = GuildOf(FirstCall),
           \A h \in heard : h # g =>
               /\ guildMap'[h] = guildMap[h] /\ memberMap'[h] = memberMap[h]
               /\ \A c \in Text \cup Thread : Home[c] = h => channelMap'[c] = channelMap[c],
           \A c \in Text : HasChannel(c)' => HasChannel(c) \/ c \in used,
           \A t \in Thread : HasChannel(t)' => HasChannel(t) \/ Parent[t] \in used,
           g \in heard => RightNow(g)'
    PROVE  QInv'
<1>1. UNCHANGED <<truth, heard, used, messages, told>>
    BY DEF gateway
<1>2. Due(FirstCall)' /\ ThenDue'
    BY LoopReturns
<1>3. Alone'
    BY ConstantsAssumption DEF QInv, Alone, IInv, CallsOK, Proc
<1>4. Given'
    BY <1>1 DEF QInv, Given
<1>5. ASSUME NEW h \in heard, h # g PROVE RightNow(h)'
    <2>1. h \in Guild
        BY DEF IInv, GatewayOK
    <2>2. ~Fresh(h)
        <3>1. Fresh(h) => FirstCall = Op("GuildAdd", h, Whole(h, told[h]))
            BY DEF Fresh, FirstCall
        <3>2. h \notin Text \cup Thread
            BY <2>1, ConstantsAssumption DEF Channel
        <3> QED  BY <1>5, <3>1, <3>2 DEF GuildOf, Op
    <2>3. RightNow(h)
        BY <1>5, <2>2 DEF QInv
    <2>4. For(h, FirstCall) = NoCall /\ For(h, LastCall) = NoCall
        BY <1>5, LoopReturns DEF For
    <2>5. For(h, FirstCall') = NoCall /\ For(h, LastCall') = NoCall
        BY <1>5, <2>1, LoopReturns, Nothing DEF For
    <2>6. Right(h, NoCall, NoCall)
        BY <2>3, <2>4 DEF RightNow
    <2>7. \A c \in Text \cup Thread : messages'[c] = messages[c] /\ truth'[h] = truth[h]
        BY <1>1
    <2>8. Right(h, NoCall, NoCall)'
        BY <1>1, <1>5, <2>1, <2>6, RightStays
    <2> QED  BY <2>5, <2>8 DEF RightNow, For
<1>6. \A h \in heard' : RightNow(h)'
    BY <1>1, <1>5
<1> QED  BY <1>2, <1>3, <1>4, <1>6 DEF QInv

\* The guild of the call, when the count and the lists become what is right
\* with the call, and the threads and messages are right without it.
LEMMA CallDone ==
    ASSUME IInv, calls = 0, QInv, todo[loop] # <<>>,
           todo' = [todo EXCEPT ![loop] = Tail(@)], UNCHANGED gateway,
           NEW g \in Guild, NEW x, x = FirstCall, g = GuildOf(x),
           HasGuild(g)',
           CountThen(x, guildMap[g].count) = Cardinality(truth[g].members) + 1
               => guildMap'[g].count = Cardinality(truth[g].members) + 1,
           ( /\ "members" \in Track /\ guildMap[g].members = memberMap[g]
             /\ (x = LastCall => MembersThen(x, memberMap[g]) \subseteq truth[g].members) )
               => /\ guildMap'[g].members = memberMap'[g]
                  /\ \/ memberMap'[g] = MembersThen(x, memberMap[g])
                     \/ /\ x.op = "ThreadMembersUpdate"
                        /\ memberMap[g] \subseteq memberMap'[g]
                        /\ memberMap'[g] \subseteq truth[g].members,
           "channels" \in Track => guildMap'[g].channels = ChannelsThen(x, guildMap[g].channels),
           "items" \in Track /\ truth[g].items = ItemsThen(x, guildMap[g].items)
               => guildMap'[g].items = ItemsThen(x, guildMap[g].items),
           ThreadsRight(g, x) => ThreadsRight(g, NoCall)',
           MessagesRight(g, x) => MessagesRight(g, NoCall)',
           RightNow(g)
    PROVE  RightNow(g)'
<1>1. UNCHANGED <<truth, heard, used, messages, told>>
    BY DEF gateway
<1>2. PICK y : y = LastCall
    OBVIOUS
<1>3. PICK z : z = FirstCall'
    OBVIOUS
<1>4. /\ z = LastCall'
      /\ \/ z = NoCall /\ x = y
         \/ /\ z = y /\ y.op \in MemberOps /\ GuildOf(y) = g
            /\ x.op \in {"MemberCount", "PresenceAdd"}
    BY <1>2, <1>3, LoopReturns
<1>5. For(g, z) = z
    BY <1>4, Nothing DEF For
<1>6. Right(g, x, y)
    BY <1>2, <1>4 DEF RightNow, For
<1>7. \/ z = NoCall
      \/ z.op \in MemberOps
    BY <1>4
<1>8. CountRight(g, z)'
    BY <1>1, <1>6, <1>7, Nothing, OnlyMembers DEF Right, CountRight
<1>9. MembersRight(g, z)'
    <2>1. CASE z = NoCall /\ x = y
        <3>1. "members" \in Track =>
                  /\ guildMap[g].members = memberMap[g]
                  /\ told[g] \subseteq MembersThen(x, memberMap[g])
                  /\ MembersThen(x, memberMap[g]) \subseteq truth[g].members
            BY <1>6, <2>1 DEF Right, MembersRight
        <3>2. x.op = "ThreadMembersUpdate" => MembersThen(x, memberMap[g]) = memberMap[g]
            BY DEF MembersThen
        <3>3. "members" \in Track => /\ guildMap'[g].members = memberMap'[g]
                                     /\ told[g] \subseteq memberMap'[g]
                                     /\ memberMap'[g] \subseteq truth[g].members
            BY <3>1, <3>2
        <3> QED  BY <1>1, <2>1, <3>3, Nothing DEF MembersRight
    <2>2. CASE z = y /\ y.op \in MemberOps /\ x.op \in {"MemberCount", "PresenceAdd"}
        <3>1. \A S : MembersThen(x, S) = S
            BY <2>2 DEF MembersThen
        <3>2. "members" \in Track => /\ guildMap[g].members = memberMap[g]
                                     /\ told[g] \subseteq MembersThen(y, memberMap[g])
                                     /\ MembersThen(y, memberMap[g]) \subseteq truth[g].members
            BY <1>6 DEF Right, MembersRight
        <3>3. x # y
            BY <2>2 DEF MemberOps
        <3>4. "members" \in Track => guildMap'[g].members = memberMap'[g] /\ memberMap'[g] = memberMap[g]
            BY <1>2, <2>2, <3>1, <3>2, <3>3
        <3> QED  BY <1>1, <2>2, <3>2, <3>4 DEF MembersRight
    <2> QED  BY <1>4, <2>1, <2>2
<1>10. ChannelsRight(g, z)'
    BY <1>1, <1>6, <1>7, Nothing, OnlyMembers DEF Right, ChannelsRight
<1>11. ThreadsRight(g, z)'
    <2>1. ThreadsRight(g, NoCall)'
        BY <1>6 DEF Right
    <2> QED  BY <1>7, <2>1, Nothing, OnlyMembers DEF ThreadsRight
<1>12. ItemsRight(g, z)'
    BY <1>1, <1>6, <1>7, Nothing, OnlyMembers DEF Right, ItemsRight
<1>13. MessagesRight(g, z)'
    <2>1. MessagesRight(g, NoCall)'
        BY <1>6 DEF Right
    <2> QED  BY <1>7, <2>1, Nothing, OnlyMembers DEF MessagesRight
<1>14. Right(g, z, z)'
    BY <1>8, <1>9, <1>10, <1>11, <1>12, <1>13 DEF Right
<1> QED  BY <1>3, <1>4, <1>5, <1>14 DEF RightNow, For

\* What a return does to the loop's calls, whether objects left the cache or not.
LEMMA LoopReturn ==
    ASSUME IInv, NEW S, Return(loop) \/ ReturnDetaching(loop, S)
    PROVE  /\ todo' = [todo EXCEPT ![loop] = Tail(@)]
           /\ looked' \in [Proc -> {"no", "live", "gone"}] /\ looked'[loop] # "gone"
<1>1. loop \in Proc
    BY DEF Proc
<1>2. CASE Return(loop)
    BY <1>1, <1>2 DEF Return, IInv, CallsOK
<1>3. CASE ReturnDetaching(loop, S)
    <2>1. PICK holds \in [Proc -> BOOLEAN] : looked' = [q \in Proc |->
              IF q = loop THEN "no" ELSE IF holds[q] THEN "gone" ELSE looked[q]]
        <3> DEFINE holds == [q \in Proc |-> q # loop /\ looked[q] = "live" /\ At(q) \in S]
        <3>1. holds \in [Proc -> BOOLEAN] /\ \A q \in Proc :
                  holds[q] <=> (q # loop /\ looked[q] = "live" /\ At(q) \in S)
            BY Zenon
        <3>2. looked' = [q \in Proc |->
                  IF q = loop THEN "no"
                  ELSE IF q # loop /\ looked[q] = "live" /\ At(q) \in S THEN "gone" ELSE looked[q]]
            BY <1>3 DEF ReturnDetaching
        <3>3. \A q \in Proc : looked'[q] =
                  IF q = loop THEN "no" ELSE IF holds[q] THEN "gone" ELSE looked[q]
            BY <3>1, <3>2
        <3> QED  BY <3>1, <3>2, <3>3
    <2>2. todo' = [todo EXCEPT ![loop] = Tail(@)]
        BY <1>3 DEF ReturnDetaching
    <2> QED  BY <1>1, <2>1, <2>2 DEF IInv, CallsOK
<1> QED  BY <1>2, <1>3

\* A call that changes the count, the members or the items of its guild.
LEMMA ListCallDone ==
    ASSUME IInv, calls = 0, QInv, NEW op, NextCall(loop, op),
           op \notin {"ChannelAdd", "ChannelRemove", "MessageRemove"},
           todo' = [todo EXCEPT ![loop] = Tail(@)],
           looked' \in [Proc -> {"no", "live", "gone"}], looked'[loop] # "gone",
           UNCHANGED <<channelMap, gateway, calls, torn>>,
           NEW g \in Guild, NEW x, x = FirstCall, g = x.at, g \in heard, RightNow(g),
           \A h \in Guild : h # g => guildMap'[h] = guildMap[h] /\ memberMap'[h] = memberMap[h],
           HasGuild(g)', guildMap'[g].channels = guildMap[g].channels,
           guildMap'[g].threads = guildMap[g].threads,
           CountThen(x, guildMap[g].count) = Cardinality(truth[g].members) + 1
               => guildMap'[g].count = Cardinality(truth[g].members) + 1,
           ( /\ "members" \in Track /\ guildMap[g].members = memberMap[g]
             /\ (x = LastCall => MembersThen(x, memberMap[g]) \subseteq truth[g].members) )
               => guildMap'[g].members = memberMap'[g] /\ memberMap'[g] = MembersThen(x, memberMap[g]),
           "items" \in Track => guildMap'[g].items = ItemsThen(x, guildMap[g].items)
    PROVE  QInv'
<1>1. x.op = op /\ todo[loop] # <<>>
    BY FirstOf
<1>2. g = GuildOf(x)
    BY ConstantsAssumption DEF GuildOf, Channel
<1>3. UNCHANGED <<truth, heard, used, messages>>
    BY DEF gateway
<1>4. \A S : ChannelsThen(x, S) = S
    BY <1>1 DEF ChannelsThen
<1>5. \A t : ~Going(x, t) /\ ~Coming(x, t)
    BY <1>1 DEF Going, Coming
<1>6. ThreadsRight(g, x) => ThreadsRight(g, NoCall)'
    BY <1>3, <1>5 DEF ThreadsRight, HasChannel
<1>7. MessagesRight(g, x) => MessagesRight(g, NoCall)'
    <2>1. ListOf(guildMap[g])' = ListOf(guildMap[g])
        BY DEF ListOf
    <2> QED  BY <1>1, <1>3, <2>1 DEF MessagesRight
<1>8. RightNow(g)'
    BY <1>1, <1>2, <1>4, <1>6, <1>7, CallDone
<1>9. \A h \in heard : h \in Guild
    BY DEF IInv, GatewayOK
<1> QED  BY <1>1, <1>2, <1>8, <1>9, LoopStep DEF HasChannel

\* A guild the client hears of is in the cache, with its members, unless it has
\* just come.
LEMMA HeardHere ==
    ASSUME IInv, calls = 0, QInv, NEW g \in heard, todo[loop] # <<Op("GuildAdd", g, Whole(g, told[g]))>>
    PROVE  /\ g \in Guild /\ RightNow(g) /\ HasGuild(g) /\ guildMap[g] \in GuildRecord
           /\ memberMap[g] \in SUBSET User /\ memberMap[g] # None /\ truth[g] \in GuildRecord
<1>1. g \in Guild /\ truth[g] \in GuildRecord
    BY DEF IInv, GatewayOK
<1>2. RightNow(g)
    BY DEF QInv, Fresh
<1>3. HasGuild(g) /\ guildMap[g] \in GuildRecord
    BY <1>1, <1>2, Entries DEF RightNow, Right, IInv
<1>4. memberMap[g] # None
    BY <1>1, <1>3 DEF QInv, Alone, IInv, MembersAgree
<1> QED  BY <1>1, <1>2, <1>3, <1>4, Entries DEF IInv

\* The guild of a call of one of the methods the events make.
LEMMA CallHere ==
    ASSUME IInv, calls = 0, QInv, NEW op, NextCall(loop, op), op \in GuildCallOps, op # "GuildAdd"
    PROVE  /\ FirstCall.at \in heard /\ FirstCall.at = At(loop)
           /\ todo[loop] # <<Op("GuildAdd", FirstCall.at, Whole(FirstCall.at, told[FirstCall.at]))>>
<1>1. FirstCall.op = op /\ At(loop) = FirstCall.at /\ FirstCall = Head(todo[loop])
    BY FirstOf
<1>2. FirstCall.at \in heard
    BY <1>1 DEF QInv, Due
<1>3. ASSUME NEW z, todo[loop] = <<Op("GuildAdd", FirstCall.at, z)>> PROVE FALSE
    <2>1. FirstCall = Op("GuildAdd", FirstCall.at, z)
        BY <1>1, <1>3
    <2> QED  BY <1>1, <2>1 DEF Op
<1> QED  BY <1>1, <1>2, <1>3

\* A change of a guild that the loop has looked up.
LEMMA LiveChange ==
    ASSUME IInv, Live(loop), At(loop) \in Guild, NEW rec, ChangeGuild(loop, rec)
    PROVE  guildMap'[At(loop)] = rec /\ \A h \in Guild : h # At(loop) => guildMap'[h] = guildMap[h]
BY DEF ChangeGuild, IInv, CacheOK

LEMMA MemberCountQ ==
    ASSUME IInv, calls = 0, QInv, MemberCount(loop)
    PROVE  QInv'
<1>1. /\ NextCall(loop, "MemberCount") /\ Return(loop) /\ Live(loop)
      /\ UNCHANGED <<memberMap, channelMap, gateway, calls, torn>>
    BY LoopLooks DEF MemberCount, Found
<1>2. PICK x \in Call : x = FirstCall
    BY <1>1, FirstOf
<1>3. x.op = "MemberCount" /\ At(loop) = x.at /\ Arg(loop) = x.arg /\ x.arg \in Int
    BY <1>1, <1>2, FirstOf, CallKinds
<1>4. PICK g \in Guild : g = x.at
    BY <1>2, <1>3, CallKinds
<1>5. /\ g \in heard /\ RightNow(g) /\ HasGuild(g) /\ guildMap[g] \in GuildRecord
    BY <1>1, <1>2, <1>4, CallHere, HeardHere DEF GuildCallOps
<1>6. PICK rec : rec = [guildMap[g] EXCEPT !.count = @ + Arg(loop)]
    OBVIOUS
<1>7. guildMap'[g] = rec /\ \A h \in Guild : h # g => guildMap'[h] = guildMap[h]
    BY <1>1, <1>3, <1>4, <1>6, LiveChange DEF MemberCount
<1>8. /\ rec \in GuildRecord /\ rec.members = guildMap[g].members
      /\ rec.channels = guildMap[g].channels /\ rec.threads = guildMap[g].threads
      /\ rec.items = guildMap[g].items /\ rec.count = guildMap[g].count + x.arg
    BY <1>3, <1>5, <1>6 DEF GuildRecord
<1>9. HasGuild(g)'
    BY <1>7, <1>8, NoneAssumption DEF HasGuild
<1>10. /\ CountThen(x, guildMap[g].count) = rec.count
       /\ \A S : MembersThen(x, S) = S /\ ItemsThen(x, S) = S
    BY <1>3, <1>8 DEF CountThen, MembersThen, ItemsThen
<1>11. PICK op : op = "MemberCount"
    OBVIOUS
<1> QED  BY <1>1, <1>2, <1>4, <1>5, <1>7, <1>8, <1>9, <1>10, <1>11, LoopReturn, ListCallDone

\* memberAdd for a guild that is in the cache.
LEMMA WithMembersDone ==
    ASSUME IInv, NEW g \in Guild, HasGuild(g), memberMap[g] # None,
           NEW S \in SUBSET User, NEW I \in SUBSET Item, WithMembers(g, S, I)
    PROVE  /\ \A h \in Guild : h # g => guildMap'[h] = guildMap[h] /\ memberMap'[h] = memberMap[h]
           /\ HasGuild(g)' /\ memberMap'[g] = memberMap[g] \cup S
           /\ guildMap'[g].members = guildMap[g].members \cup (S \ memberMap[g])
           /\ guildMap'[g].channels = guildMap[g].channels
           /\ guildMap'[g].threads = guildMap[g].threads
           /\ guildMap'[g].items = guildMap[g].items \cup I
           /\ guildMap'[g].count = guildMap[g].count
<1>1. PICK rec : rec = [guildMap[g] EXCEPT !.members = @ \cup (S \ memberMap[g]),
                                           !.items = @ \cup I]
    OBVIOUS
<1>2. guildMap' = [guildMap EXCEPT ![g] = rec] /\ memberMap' = [memberMap EXCEPT ![g] = @ \cup S]
    BY <1>1 DEF WithMembers, IInv, CacheOK
<1>3. guildMap[g] \in GuildRecord
    BY Entries DEF IInv
<1>4. /\ rec \in GuildRecord
      /\ rec.members = guildMap[g].members \cup (S \ memberMap[g])
      /\ rec.channels = guildMap[g].channels /\ rec.threads = guildMap[g].threads
      /\ rec.items = guildMap[g].items \cup I /\ rec.count = guildMap[g].count
    <2>1. memberMap[g] \in SUBSET User
        BY Entries DEF IInv
    <2> QED  BY <1>1, <1>3, <2>1 DEF GuildRecord
<1>5. guildMap'[g] = rec /\ rec # None
    BY <1>2, <1>4, NoneAssumption DEF IInv, CacheOK
<1>6. \A h \in Guild : h # g => guildMap'[h] = guildMap[h] /\ memberMap'[h] = memberMap[h]
    BY <1>2 DEF IInv, CacheOK
<1>7. memberMap'[g] = memberMap[g] \cup S
    BY <1>2 DEF IInv, CacheOK
<1> QED  BY <1>4, <1>5, <1>6, <1>7 DEF HasGuild

LEMMA MemberAddQ ==
    ASSUME IInv, calls = 0, QInv, MemberAdd(loop)
    PROVE  QInv'
<1>1. /\ NextCall(loop, "MemberAdd") /\ Return(loop) /\ WithMembers(At(loop), {Arg(loop)}, {})
      /\ UNCHANGED <<channelMap, gateway, calls, torn>>
    BY DEF MemberAdd
<1>2. PICK x \in Call : x = FirstCall
    BY <1>1, FirstOf
<1>3. x.op = "MemberAdd" /\ At(loop) = x.at /\ Arg(loop) = x.arg /\ x.arg \in User
    BY <1>1, <1>2, FirstOf, CallKinds DEF MemberOps
<1>4. PICK g \in Guild : g = x.at
    BY <1>2, <1>3, CallKinds DEF MemberOps
<1>5. g \in heard /\ RightNow(g) /\ HasGuild(g) /\ memberMap[g] # None
    BY <1>1, <1>2, <1>4, CallHere, HeardHere DEF GuildCallOps
<1>6. PICK S \in SUBSET User, I \in SUBSET Item : S = {x.arg} /\ I = {}
    BY <1>3
<1>7. WithMembers(g, S, I)
    BY <1>1, <1>3, <1>4, <1>6
<1>8. /\ MembersThen(x, memberMap[g]) = memberMap[g] \cup S
      /\ \A T : ItemsThen(x, T) = T
      /\ \A n : CountThen(x, n) = n
    BY <1>3, <1>6 DEF MembersThen, CountThen, ItemsThen
<1>9. PICK op : op = "MemberAdd"
    OBVIOUS
<1>10. /\ \A h \in Guild : h # g => guildMap'[h] = guildMap[h] /\ memberMap'[h] = memberMap[h]
       /\ HasGuild(g)' /\ memberMap'[g] = memberMap[g] \cup S
       /\ guildMap'[g].members = guildMap[g].members \cup (S \ memberMap[g])
       /\ guildMap'[g].channels = guildMap[g].channels
       /\ guildMap'[g].threads = guildMap[g].threads
       /\ guildMap'[g].items = guildMap[g].items
       /\ guildMap'[g].count = guildMap[g].count
    BY <1>5, <1>6, <1>7, WithMembersDone
<1>11. /\ todo' = [todo EXCEPT ![loop] = Tail(@)]
       /\ looked' \in [Proc -> {"no", "live", "gone"}] /\ looked'[loop] # "gone"
    BY <1>1, LoopReturn
<1>12. NextCall(loop, op) /\ op \notin {"ChannelAdd", "ChannelRemove", "MessageRemove"}
    BY <1>1, <1>9
<1>13. guildMap[g].members = memberMap[g] =>
           guildMap'[g].members = memberMap'[g] /\ memberMap'[g] = MembersThen(x, memberMap[g])
    BY <1>8, <1>10
<1>14. guildMap'[g].items = ItemsThen(x, guildMap[g].items)
    BY <1>8, <1>10
<1>15. CountThen(x, guildMap[g].count) = guildMap'[g].count
    BY <1>8, <1>10
<1>16. /\ \A h \in Guild : h # g => guildMap'[h] = guildMap[h] /\ memberMap'[h] = memberMap[h]
       /\ HasGuild(g)' /\ guildMap'[g].channels = guildMap[g].channels
       /\ guildMap'[g].threads = guildMap[g].threads
    BY <1>10
<1> QED  BY <1>1, <1>2, <1>4, <1>5, <1>11, <1>12, <1>13, <1>14, <1>15, <1>16, ListCallDone

LEMMA MemberRemoveQ ==
    ASSUME IInv, calls = 0, QInv, MemberRemove(loop)
    PROVE  QInv'
<1>1. /\ NextCall(loop, "MemberRemove") /\ Return(loop) /\ Live(loop)
      /\ UNCHANGED <<channelMap, gateway, calls>>
    BY LoopLooks DEF MemberRemove, Found
<1>2. PICK x \in Call : x = FirstCall
    BY <1>1, FirstOf
<1>3. x.op = "MemberRemove" /\ At(loop) = x.at /\ Arg(loop) = x.arg /\ x.arg \in User
    BY <1>1, <1>2, FirstOf, CallKinds DEF MemberOps
<1>4. PICK g \in Guild : g = x.at
    BY <1>2, <1>3, CallKinds DEF MemberOps
<1>5. /\ g \in heard /\ RightNow(g) /\ HasGuild(g) /\ guildMap[g] \in GuildRecord
      /\ memberMap[g] \in SUBSET User /\ memberMap[g] # None
    BY <1>1, <1>2, <1>4, CallHere, HeardHere DEF GuildCallOps
<1>6. PICK u : u = x.arg
    OBVIOUS
<1>7. /\ MembersThen(x, memberMap[g]) = memberMap[g] \ {u}
      /\ \A T : ItemsThen(x, T) = T
      /\ \A n : CountThen(x, n) = n
    BY <1>3, <1>6 DEF MembersThen, CountThen, ItemsThen
<1>8. torn' = torn
    BY <1>1 DEF MemberRemove, Tear
<1>9. PICK op : op = "MemberRemove"
    OBVIOUS
<1>12. /\ todo' = [todo EXCEPT ![loop] = Tail(@)]
       /\ looked' \in [Proc -> {"no", "live", "gone"}] /\ looked'[loop] # "gone"
    BY <1>1, LoopReturn
<1>13. NextCall(loop, op) /\ op \notin {"ChannelAdd", "ChannelRemove", "MessageRemove"}
    BY <1>1, <1>9
<1>10. CASE HasMember(g, u)
    <2>1. PICK rec : rec = [guildMap[g] EXCEPT !.members = @ \ {u}]
        OBVIOUS
    <2>2. memberMap' = [memberMap EXCEPT ![g] = @ \ {u}] /\ ChangeGuild(loop, rec)
        BY <1>3, <1>4, <1>6, <1>10, <2>1 DEF MemberRemove
    <2>3. /\ guildMap'[g] = rec /\ memberMap'[g] = memberMap[g] \ {u}
          /\ \A h \in Guild : h # g => guildMap'[h] = guildMap[h] /\ memberMap'[h] = memberMap[h]
        BY <1>1, <1>3, <1>4, <2>2, LiveChange DEF IInv, CacheOK
    <2>4. /\ rec \in GuildRecord /\ rec.members = guildMap[g].members \ {u}
          /\ rec.channels = guildMap[g].channels /\ rec.threads = guildMap[g].threads
          /\ rec.items = guildMap[g].items /\ rec.count = guildMap[g].count
        BY <1>5, <2>1 DEF GuildRecord
    <2>5. HasGuild(g)'
        BY <2>3, <2>4, NoneAssumption DEF HasGuild
    <2>6. guildMap[g].members = memberMap[g] =>
              guildMap'[g].members = memberMap'[g] /\ memberMap'[g] = MembersThen(x, memberMap[g])
        BY <1>7, <2>3, <2>4
    <2>7. guildMap'[g].items = ItemsThen(x, guildMap[g].items)
        BY <1>7, <2>3, <2>4
    <2>8. /\ guildMap'[g].channels = guildMap[g].channels /\ guildMap'[g].threads = guildMap[g].threads
        BY <2>3, <2>4
    <2>9. CountThen(x, guildMap[g].count) = guildMap'[g].count
        BY <1>7, <2>3, <2>4
    <2>10. \A h \in Guild : h # g => guildMap'[h] = guildMap[h] /\ memberMap'[h] = memberMap[h]
        BY <2>3
    <2> QED  BY <1>1, <1>2, <1>4, <1>5, <1>8, <1>12, <1>13, <2>5, <2>6, <2>7, <2>8, <2>9, <2>10,
                ListCallDone
<1>11. CASE ~HasMember(g, u)
    <2>1. UNCHANGED <<memberMap, guildMap>>
        BY <1>3, <1>4, <1>6, <1>11 DEF MemberRemove
    <2>2. memberMap[g] \ {u} = memberMap[g]
        BY <1>5, <1>11 DEF HasMember
    <2>3. HasGuild(g)'
        BY <1>5, <2>1 DEF HasGuild
    <2> QED  BY <1>1, <1>2, <1>4, <1>5, <1>7, <1>8, <1>12, <1>13, <2>1, <2>2, <2>3, ListCallDone
<1> QED  BY <1>10, <1>11

\* The methods that change a list without a map.
LEMMA SetItemsQ ==
    ASSUME IInv, calls = 0, QInv, NEW op, NEW S \in SUBSET Item, SetItems(loop, op, S),
           op \in {"RoleAdd", "RoleRemove", "voiceStateUpdate", "SetEmojis"},
           NEW x \in Call, x = FirstCall, x.at \in Guild,
           HasGuild(x.at) => S = ItemsThen(x, guildMap[x.at].items)
    PROVE  QInv'
<1>1. /\ NextCall(loop, op) /\ Return(loop) /\ Live(loop)
      /\ UNCHANGED <<memberMap, channelMap, gateway, calls, torn>>
    BY LoopLooks DEF SetItems, Found
<1>2. x.op = op /\ At(loop) = x.at
    BY <1>1, FirstOf
<1>3. PICK g \in Guild : g = x.at
    OBVIOUS
<1>4. g \in heard /\ RightNow(g) /\ HasGuild(g) /\ guildMap[g] \in GuildRecord
    BY <1>1, <1>2, <1>3, CallHere, HeardHere DEF GuildCallOps
<1>5. PICK rec : rec = [guildMap[g] EXCEPT !.items = S]
    OBVIOUS
<1>6. guildMap'[g] = rec /\ \A h \in Guild : h # g => guildMap'[h] = guildMap[h]
    BY <1>1, <1>2, <1>3, <1>5, LiveChange DEF SetItems
<1>7. /\ rec \in GuildRecord /\ rec.members = guildMap[g].members
      /\ rec.channels = guildMap[g].channels /\ rec.threads = guildMap[g].threads
      /\ rec.items = S /\ rec.count = guildMap[g].count
    BY <1>4, <1>5 DEF GuildRecord
<1>8. HasGuild(g)'
    BY <1>6, <1>7, NoneAssumption DEF HasGuild
<1>9. /\ \A n : CountThen(x, n) = n
      /\ \A T : MembersThen(x, T) = T
    BY <1>2 DEF CountThen, MembersThen
<1>10. op \notin {"ChannelAdd", "ChannelRemove", "MessageRemove"}
    OBVIOUS
<1> QED  BY <1>1, <1>3, <1>4, <1>6, <1>7, <1>8, <1>9, <1>10, LoopReturn, ListCallDone

\* A list of the guild that the loop looked up, with or without an item.
LEMMA LoopItems ==
    ASSUME IInv, calls = 0, QInv, NEW op, Found(loop, op), NEW x, x = FirstCall, x.at \in Guild
    PROVE  /\ Items(loop) = guildMap[x.at].items /\ Items(loop) \in SUBSET Item
           /\ x \in Call /\ x.op = op /\ Arg(loop) = x.arg
<1>1. NextCall(loop, op)
    BY DEF Found
<1>2. x \in Call /\ x.op = op /\ Arg(loop) = x.arg /\ At(loop) = x.at
    BY <1>1, FirstOf
<1>3. Live(loop) /\ loop \in Proc
    BY LoopLooks DEF Proc
<1> QED  BY <1>2, <1>3, ItemsKnown DEF Items

LEMMA ItemsQ ==
    ASSUME IInv, calls = 0, QInv,
           RoleAdd(loop) \/ RoleRemove(loop) \/ voiceStateUpdate(loop) \/ SetEmojis(loop)
    PROVE  QInv'
<1>1. CASE RoleAdd(loop)
    <2>1. Found(loop, "RoleAdd") /\ NextCall(loop, "RoleAdd")
        BY <1>1 DEF RoleAdd, SetItems, Found
    <2>2. PICK x \in Call : x = FirstCall /\ x.op = "RoleAdd"
        BY <2>1, FirstOf
    <2>3. x.at \in Guild /\ x.arg \in Item
        BY <2>2, CallKinds DEF ItemOps
    <2>4. /\ Items(loop) = guildMap[x.at].items /\ Items(loop) \in SUBSET Item /\ Arg(loop) = x.arg
        BY <2>1, <2>2, <2>3, LoopItems
    <2>5. PICK S \in SUBSET Item : S = Items(loop) \cup {Arg(loop)}
        BY <2>3, <2>4
    <2>6. S = ItemsThen(x, guildMap[x.at].items)
        BY <2>2, <2>4, <2>5 DEF ItemsThen
    <2>7. SetItems(loop, "RoleAdd", S)
        BY <1>1, <2>5 DEF RoleAdd
    <2> QED  BY <2>2, <2>3, <2>6, <2>7, SetItemsQ
<1>2. CASE RoleRemove(loop)
    <2>1. Found(loop, "RoleRemove") /\ NextCall(loop, "RoleRemove")
        BY <1>2 DEF RoleRemove, SetItems, Found
    <2>2. PICK x \in Call : x = FirstCall /\ x.op = "RoleRemove"
        BY <2>1, FirstOf
    <2>3. x.at \in Guild /\ x.arg \in Item
        BY <2>2, CallKinds DEF ItemOps
    <2>4. /\ Items(loop) = guildMap[x.at].items /\ Items(loop) \in SUBSET Item /\ Arg(loop) = x.arg
        BY <2>1, <2>2, <2>3, LoopItems
    <2>5. PICK S \in SUBSET Item : S = Items(loop) \ {Arg(loop)}
        BY <2>3, <2>4
    <2>6. S = ItemsThen(x, guildMap[x.at].items)
        BY <2>2, <2>4, <2>5 DEF ItemsThen
    <2>7. SetItems(loop, "RoleRemove", S)
        BY <1>2, <2>5 DEF RoleRemove
    <2> QED  BY <2>2, <2>3, <2>6, <2>7, SetItemsQ
<1>3. CASE voiceStateUpdate(loop)
    <2>1. Found(loop, "voiceStateUpdate") /\ NextCall(loop, "voiceStateUpdate")
        BY <1>3 DEF voiceStateUpdate, SetItems, Found
    <2>2. PICK x \in Call : x = FirstCall /\ x.op = "voiceStateUpdate"
        BY <2>1, FirstOf
    <2>3. x.at \in Guild /\ x.arg.item \in Item
        BY <2>2, CallKinds
    <2>4. /\ Items(loop) = guildMap[x.at].items /\ Items(loop) \in SUBSET Item /\ Arg(loop) = x.arg
        BY <2>1, <2>2, <2>3, LoopItems
    <2>5. PICK S \in SUBSET Item :
              S = IF x.arg.joins THEN Items(loop) \cup {x.arg.item} ELSE Items(loop) \ {x.arg.item}
        BY <2>3, <2>4
    <2>6. S = ItemsThen(x, guildMap[x.at].items)
        BY <2>2, <2>4, <2>5 DEF ItemsThen
    <2>7. SetItems(loop, "voiceStateUpdate", S)
        BY <1>3, <2>4, <2>5 DEF voiceStateUpdate
    <2> QED  BY <2>2, <2>3, <2>6, <2>7, SetItemsQ
<1>4. CASE SetEmojis(loop)
    <2>1. Found(loop, "SetEmojis") /\ NextCall(loop, "SetEmojis")
        BY <1>4 DEF SetEmojis, SetItems, Found
    <2>2. PICK x \in Call : x = FirstCall /\ x.op = "SetEmojis"
        BY <2>1, FirstOf
    <2>3. x.at \in Guild /\ x.arg \in SUBSET Item
        BY <2>2, CallKinds
    <2>4. Arg(loop) = x.arg
        BY <2>1, <2>2, <2>3, LoopItems
    <2>5. x.arg = ItemsThen(x, guildMap[x.at].items)
        BY <2>2 DEF ItemsThen
    <2>6. SetItems(loop, "SetEmojis", x.arg)
        BY <1>4, <2>4 DEF SetEmojis
    <2> QED  BY <2>2, <2>3, <2>5, <2>6, SetItemsQ
<1> QED  BY <1>1, <1>2, <1>3, <1>4

LEMMA PresenceAddQ ==
    ASSUME IInv, calls = 0, QInv, PresenceAdd(loop)
    PROVE  QInv'
<1>1. /\ NextCall(loop, "PresenceAdd") /\ Return(loop)
      /\ UNCHANGED <<memberMap, channelMap, gateway, calls, torn>>
    BY DEF PresenceAdd
<1>2. PICK x \in Call : x = FirstCall
    BY <1>1, FirstOf
<1>3. x.op = "PresenceAdd" /\ At(loop) = x.at /\ Arg(loop) = x.arg /\ x.arg \in Item
    BY <1>1, <1>2, FirstOf, CallKinds DEF ItemOps
<1>4. PICK g \in Guild : g = x.at
    BY <1>2, <1>3, CallKinds DEF ItemOps
<1>5. /\ g \in heard /\ RightNow(g) /\ HasGuild(g) /\ guildMap[g] \in GuildRecord
    BY <1>1, <1>2, <1>4, CallHere, HeardHere DEF GuildCallOps
<1>6. PICK rec : rec = [guildMap[g] EXCEPT !.items = @ \cup {x.arg}]
    OBVIOUS
<1>7. guildMap'[g] = rec /\ \A h \in Guild : h # g => guildMap'[h] = guildMap[h]
    BY <1>3, <1>4, <1>5, <1>6 DEF PresenceAdd, IInv, CacheOK
<1>8. /\ rec \in GuildRecord /\ rec.members = guildMap[g].members
      /\ rec.channels = guildMap[g].channels /\ rec.threads = guildMap[g].threads
      /\ rec.items = guildMap[g].items \cup {x.arg} /\ rec.count = guildMap[g].count
    BY <1>3, <1>5, <1>6 DEF GuildRecord
<1>9. HasGuild(g)'
    BY <1>7, <1>8, NoneAssumption DEF HasGuild
<1>10. /\ ItemsThen(x, guildMap[g].items) = rec.items
       /\ \A n : CountThen(x, n) = n
       /\ \A S : MembersThen(x, S) = S
    BY <1>3, <1>8 DEF CountThen, MembersThen, ItemsThen
<1>11. PICK op : op = "PresenceAdd"
    OBVIOUS
<1>12. /\ todo' = [todo EXCEPT ![loop] = Tail(@)]
       /\ looked' \in [Proc -> {"no", "live", "gone"}] /\ looked'[loop] # "gone"
    BY <1>1, LoopReturn
<1>13. NextCall(loop, op) /\ op \notin {"ChannelAdd", "ChannelRemove", "MessageRemove"}
    BY <1>1, <1>11
<1>14. guildMap'[g].items = ItemsThen(x, guildMap[g].items)
    BY <1>7, <1>8, <1>10
<1>15. /\ guildMap'[g].members = guildMap[g].members /\ guildMap'[g].count = guildMap[g].count
       /\ guildMap'[g].channels = guildMap[g].channels /\ guildMap'[g].threads = guildMap[g].threads
    BY <1>7, <1>8
<1> QED  BY <1>1, <1>2, <1>4, <1>5, <1>7, <1>9, <1>10, <1>12, <1>13, <1>14, <1>15, ListCallDone

\* A guild that comes whole, and one that comes with a new list at most.
LEMMA WholeFields ==
    ASSUME NEW g, NEW M
    PROVE  /\ Whole(g, M).members = M /\ Whole(g, M).channels = truth[g].channels
           /\ Whole(g, M).threads = truth[g].threads /\ Whole(g, M).items = truth[g].items
           /\ Whole(g, M).count = Cardinality(truth[g].members) + 1
BY DEF Whole

LEMMA BareFields ==
    ASSUME NEW E
    PROVE  /\ Bare(E).members = None /\ Bare(E).channels = None /\ Bare(E).threads = None
           /\ Bare(E).items = E /\ Bare(E).count = 0 /\ ChannelsOf(Bare(E)) = {}
BY DEF Bare, ChannelsOf

\* The lists of a guild are sets.
LEMMA TruthLists ==
    ASSUME IInv, NEW g \in Guild
    PROVE  /\ truth[g].members \in SUBSET User /\ truth[g].channels \in SUBSET Text
           /\ truth[g].threads \in SUBSET Thread /\ truth[g].items \in SUBSET Item
           /\ truth[g].members # None /\ truth[g].channels # None
           /\ truth[g].threads # None /\ truth[g].items # None
           /\ Cardinality(truth[g].members) \in Nat
<1>1. /\ truth[g].members \in SUBSET User /\ truth[g].channels \in SUBSET Text
      /\ truth[g].threads \in SUBSET Thread /\ truth[g].items \in SUBSET Item
    BY DEF IInv, GatewayOK, GuildRecord
<1>2. IsFiniteSet(truth[g].members)
    BY <1>1, ConstantsAssumption, FS_Subset
<1> QED  BY <1>1, <1>2, NoneAssumption, FS_CardinalityType

LEMMA GuildWholeQ ==
    ASSUME IInv, calls = 0, QInv, GuildAdd(loop), Arg(loop) = Whole(At(loop), told[At(loop)]),
           told[At(loop)] \subseteq truth[At(loop)].members, Len(todo[loop]) = 1
    PROVE  QInv'
<1>1. /\ NextCall(loop, "GuildAdd") /\ UNCHANGED <<private, gateway, calls, events, torn>>
    BY DEF GuildAdd
<1>2. PICK x \in Call : x = FirstCall
    BY <1>1, FirstOf
<1>3. x.op = "GuildAdd" /\ At(loop) = x.at /\ Arg(loop) = x.arg /\ todo[loop] # <<>>
    BY <1>1, <1>2, FirstOf
<1>4. PICK g \in Guild : g = x.at
    BY <1>2, <1>3, CallKinds
<1>5. PICK new, M : new = Whole(g, M) /\ M = told[g]
    OBVIOUS
<1>22. M \subseteq truth[g].members /\ M # None
    <2>1. M \subseteq truth[g].members /\ M \in SUBSET User
        BY <1>3, <1>4, <1>5, TruthLists
    <2> QED  BY <2>1, NoneAssumption
<1>6. /\ new.members = M /\ new.channels = truth[g].channels
      /\ new.threads = truth[g].threads /\ new.items = truth[g].items
      /\ new.count = Cardinality(truth[g].members) + 1
      /\ ChannelsOf(new) = ListOf(truth[g])
    BY <1>5, WholeFields, TruthLists DEF ChannelsOf, ListOf
<1>7. PICK S : S = ListOf(truth[g])
    OBVIOUS
<1>8. \A c \in S : c \in Text \cup Thread /\ c \in Channel /\ Home[c] = g
    BY <1>7, TruthLists DEF ListOf, IInv, Homes, Channel
<1>9. PICK rec : rec = Merge(new, IF guildMap[g] = None THEN NewGuild ELSE guildMap[g])
    OBVIOUS
<1>10. /\ rec.members = M /\ rec.channels = truth[g].channels
       /\ rec.threads = truth[g].threads /\ rec.items = truth[g].items
       /\ rec.count = Cardinality(truth[g].members) + 1
    BY <1>6, <1>9, <1>22, TruthLists DEF Merge
<1>11. /\ channelMap' = [c \in Channel |-> IF c \in S THEN NewChannel ELSE channelMap[c]]
       /\ memberMap' = [memberMap EXCEPT ![g] = M]
       /\ guildMap' = [guildMap EXCEPT ![g] = rec]
       /\ ReturnDetaching(loop, S)
    BY ZenonT(30), <1>3, <1>4, <1>5, <1>6, <1>7, <1>9, <1>22, TruthLists DEF GuildAdd, IInv, CacheOK
<1>12. /\ guildMap'[g] = rec /\ memberMap'[g] = M
       /\ \A h \in Guild : h # g => guildMap'[h] = guildMap[h] /\ memberMap'[h] = memberMap[h]
    BY <1>11 DEF IInv, CacheOK
<1>13. \A c \in Channel : /\ c \in S => channelMap'[c] = NewChannel
                          /\ c \notin S => channelMap'[c] = channelMap[c]
    BY <1>11
<1>14. UNCHANGED <<truth, heard, used, messages, told>>
    BY <1>1 DEF gateway
<1>15. HasGuild(g)'
    <2>1. new \in GuildGiven
        BY <1>2, <1>3, <1>4, <1>5, CallKinds
    <2>2. \A old \in GuildRecord : Merge(new, old) # None
        BY <2>1, MergeType, NoneAssumption
    <2>3. (IF guildMap[g] = None THEN NewGuild ELSE guildMap[g]) \in GuildRecord
        BY NewTypes, Entries DEF IInv, HasGuild
    <2> QED  BY <1>9, <1>12, <2>2, <2>3 DEF HasGuild
<1>16. Right(g, NoCall, NoCall)'
    <2>1. CountRight(g, NoCall)'
        BY <1>10, <1>12, <1>14, Nothing DEF CountRight
    <2>2. MembersRight(g, NoCall)'
        BY <1>5, <1>10, <1>12, <1>14, <1>22, Nothing DEF MembersRight
    <2>3. ChannelsRight(g, NoCall)'
        BY <1>10, <1>12, <1>14, Nothing DEF ChannelsRight
    <2>4. ThreadsRight(g, NoCall)'
        <3>1. \A t \in truth[g].threads : HasChannel(t)' /\ ~channelMap'[t].archived
            BY <1>7, <1>8, <1>13, NewTypes DEF ListOf, HasChannel, NewChannel
        <3> QED  BY <1>10, <1>12, <1>14, <3>1, Nothing DEF ThreadsRight
    <2>5. ItemsRight(g, NoCall)'
        BY <1>10, <1>12, <1>14, Nothing DEF ItemsRight
    <2>6. MessagesRight(g, NoCall)'
        <3>1. ListOf(guildMap[g])' = S
            BY <1>7, <1>10, <1>12 DEF ListOf
        <3>2. \A c \in S, m \in Message : ~Contains(m, channelMap'[c].messages)
            BY <1>8, <1>13 DEF NewChannel, Contains
        <3> QED  BY <3>1, <3>2 DEF MessagesRight, Contains
    <2> QED  BY <1>15, <2>1, <2>2, <2>3, <2>4, <2>5, <2>6 DEF Right
<1>17. /\ todo' = [todo EXCEPT ![loop] = Tail(@)]
       /\ looked' \in [Proc -> {"no", "live", "gone"}] /\ looked'[loop] # "gone"
    BY <1>11, LoopReturn
<1>18. RightNow(g)'
    <2>1. PICK z : z = FirstCall'
        OBVIOUS
    <2>2. z = LastCall' /\ (z = NoCall \/ x.op \in {"MemberCount", "PresenceAdd"})
        BY <1>1, <1>2, <1>3, <1>17, <2>1, LoopReturns
    <2>3. z = NoCall
        BY <1>3, <2>2
    <2> QED  BY <1>16, <2>1, <2>2, <2>3 DEF RightNow, For
<1>19. \A h \in heard : h # g =>
           /\ guildMap'[h] = guildMap[h] /\ memberMap'[h] = memberMap[h]
           /\ \A c \in Text \cup Thread : Home[c] = h => channelMap'[c] = channelMap[c]
    BY <1>8, <1>12, <1>13 DEF IInv, GatewayOK, Channel
<1>20. \A c \in Text : HasChannel(c)' => HasChannel(c) \/ c \in used
    <2>1. \A c \in Text : c \in S => c \in used
        BY <1>7, <1>8, TruthLists, ConstantsAssumption DEF ListOf, QInv, Given
    <2> QED  BY <1>13, <2>1 DEF HasChannel, Channel
<1>23. \A t \in Thread : HasChannel(t)' => HasChannel(t) \/ Parent[t] \in used
    <2>1. \A t \in Thread : t \in S => Parent[t] \in used
        BY <1>7, <1>8, TruthLists, ConstantsAssumption DEF ListOf, QInv, Given
    <2> QED  BY <1>13, <2>1 DEF HasChannel, Channel
<1>21. g = GuildOf(FirstCall)
    BY <1>2, <1>4, ConstantsAssumption DEF GuildOf, Channel
<1> QED  BY <1>1, <1>3, <1>17, <1>18, <1>19, <1>20, <1>21, <1>23, LoopStep

LEMMA GuildBareQ ==
    ASSUME IInv, calls = 0, QInv, GuildAdd(loop), NEW E \in (SUBSET Item) \cup {None},
           Arg(loop) = Bare(E)
    PROVE  QInv'
<1>1. /\ NextCall(loop, "GuildAdd") /\ UNCHANGED <<private, gateway, calls, events, torn>>
    BY DEF GuildAdd
<1>2. PICK x \in Call : x = FirstCall
    BY <1>1, FirstOf
<1>3. x.op = "GuildAdd" /\ At(loop) = x.at /\ Arg(loop) = x.arg /\ FirstCall = Head(todo[loop])
    BY <1>1, <1>2, FirstOf
<1>4. PICK g \in Guild : g = x.at
    BY <1>2, <1>3, CallKinds
<1>5. g \in heard
    BY <1>2, <1>3, <1>4 DEF QInv, Due, GuildCallOps
<1>6. PICK new : new = Bare(E)
    OBVIOUS
<1>7. /\ new.members = None /\ new.channels = None /\ new.threads = None
      /\ new.items = E /\ new.count = 0 /\ ChannelsOf(new) = {}
    BY <1>6, BareFields
<1>8. todo[loop] # <<Op("GuildAdd", g, Whole(g, told[g]))>>
    <2>1. ASSUME todo[loop] = <<Op("GuildAdd", g, Whole(g, told[g]))>> PROVE FALSE
        <3>1. x = Op("GuildAdd", g, Whole(g, told[g]))
            BY <1>2, <1>3, <2>1
        <3>2. x.arg = Whole(g, told[g])
            BY <3>1 DEF Op
        <3>3. Whole(g, told[g]).channels = None
            BY <1>3, <1>6, <1>7, <3>2
        <3> QED  BY <3>3, WholeFields, TruthLists
    <2> QED  BY <2>1
<1>9. /\ RightNow(g) /\ HasGuild(g) /\ guildMap[g] \in GuildRecord
      /\ memberMap[g] \in SUBSET User /\ memberMap[g] # None
    BY <1>5, <1>8, HeardHere
<1>10. PICK rec : rec = Merge(new, guildMap[g])
    OBVIOUS
<1>11. /\ rec.members = guildMap[g].members /\ rec.channels = guildMap[g].channels
       /\ rec.threads = guildMap[g].threads /\ rec.count = guildMap[g].count
       /\ rec.items = IF E = None THEN guildMap[g].items ELSE E
    BY <1>7, <1>10 DEF Merge
<1>12. rec # None
    <2>1. new \in GuildGiven
        BY <1>2, <1>3, <1>6, CallKinds
    <2> QED  BY <1>9, <1>10, <2>1, MergeType, NoneAssumption
<1>13. /\ channelMap' = [c \in Channel |-> channelMap[c]]
       /\ memberMap' = [memberMap EXCEPT ![g] = memberMap[g]]
       /\ guildMap' = [guildMap EXCEPT ![g] = rec]
       /\ ReturnDetaching(loop, {})
    BY <1>3, <1>4, <1>6, <1>7, <1>9, <1>10 DEF GuildAdd, IInv, CacheOK, HasGuild
<1>14. UNCHANGED channelMap
    BY <1>13 DEF IInv, CacheOK
<1>15. /\ guildMap'[g] = rec /\ memberMap'[g] = memberMap[g] /\ HasGuild(g)'
       /\ \A h \in Guild : h # g => guildMap'[h] = guildMap[h] /\ memberMap'[h] = memberMap[h]
    BY <1>12, <1>13 DEF IInv, CacheOK, HasGuild
<1>16. /\ todo' = [todo EXCEPT ![loop] = Tail(@)]
       /\ looked' \in [Proc -> {"no", "live", "gone"}] /\ looked'[loop] # "gone"
    BY <1>13, LoopReturn
<1>17. PICK op : op = "GuildAdd"
    OBVIOUS
<1>18. NextCall(loop, op) /\ op \notin {"ChannelAdd", "ChannelRemove", "MessageRemove"}
    BY <1>1, <1>17
<1>19. /\ \A n : CountThen(x, n) = n
       /\ \A S : MembersThen(x, S) = S
    BY <1>3 DEF CountThen, MembersThen
<1>20. guildMap'[g].items = ItemsThen(x, guildMap[g].items)
    BY <1>3, <1>6, <1>7, <1>11, <1>15 DEF ItemsThen
<1>21. /\ guildMap'[g].members = guildMap[g].members /\ guildMap'[g].count = guildMap[g].count
       /\ guildMap'[g].channels = guildMap[g].channels /\ guildMap'[g].threads = guildMap[g].threads
    BY <1>11, <1>15
<1>22. guildMap[g].members = memberMap[g] =>
           guildMap'[g].members = memberMap'[g] /\ memberMap'[g] = MembersThen(x, memberMap[g])
    BY <1>15, <1>19, <1>21
<1>23. CountThen(x, guildMap[g].count) = guildMap'[g].count
    BY <1>19, <1>21
<1> QED  BY <1>1, <1>2, <1>4, <1>5, <1>9, <1>14, <1>15, <1>16, <1>18, <1>20, <1>21, <1>22, <1>23,
            ListCallDone

LEMMA GuildAddQ ==
    ASSUME IInv, calls = 0, QInv, GuildAdd(loop)
    PROVE  QInv'
<1>1. NextCall(loop, "GuildAdd")
    BY DEF GuildAdd
<1>2. FirstCall.op = "GuildAdd" /\ At(loop) = FirstCall.at /\ Arg(loop) = FirstCall.arg
    BY <1>1, FirstOf
<1>3. \/ /\ Arg(loop) = Whole(At(loop), told[At(loop)]) /\ Len(todo[loop]) = 1
         /\ told[At(loop)] \subseteq truth[At(loop)].members
      \/ \E E \in (SUBSET Item) \cup {None} : Arg(loop) = Bare(E)
    BY <1>2 DEF QInv, Due
<1> QED  BY <1>3, GuildWholeQ, GuildBareQ

LEMMA GuildRemoveQ ==
    ASSUME IInv, calls = 0, QInv, GuildRemove(loop)
    PROVE  QInv'
<1>1. /\ NextCall(loop, "GuildRemove") /\ ReturnDetaching(loop, {At(loop)})
      /\ guildMap' = [guildMap EXCEPT ![At(loop)] = None]
      /\ UNCHANGED <<memberMap, channelMap, private, gateway, calls, events, torn>>
    BY DEF GuildRemove, Found
<1>2. FirstCall \in Call /\ FirstCall.op = "GuildRemove" /\ At(loop) = FirstCall.at /\ todo[loop] # <<>>
    BY <1>1, FirstOf
<1>3. PICK g \in Guild : g = At(loop)
    BY <1>2, CallKinds
<1>4. g \notin heard
    BY <1>2, <1>3 DEF QInv, Due
<1>5. g = GuildOf(FirstCall)
    BY <1>2, <1>3, ConstantsAssumption DEF GuildOf, Channel
<1>6. \A h \in heard : guildMap'[h] = guildMap[h]
    BY <1>1, <1>3, <1>4 DEF IInv, CacheOK, GatewayOK
<1> QED  BY <1>1, <1>2, <1>4, <1>5, <1>6, LoopReturn, LoopStep DEF HasChannel

\* A call that changes one channel, and of its guild the members at most.
LEMMA ChannelCallDone ==
    ASSUME IInv, calls = 0, QInv, NEW op, NextCall(loop, op),
           op \in {"MessageAdd", "MessageRemove", "ThreadMemberUpdate", "ThreadMembersUpdate"},
           Return(loop), UNCHANGED <<gateway, calls, torn>>,
           NEW c \in Channel, c = At(loop), HasChannel(c), NEW rec \in ChannelRecord,
           channelMap' = [channelMap EXCEPT ![c] = rec],
           rec.archived = channelMap[c].archived,
           \A m \in Message : Contains(m, rec.messages) =>
               \/ Contains(m, messages[c])
               \/ Contains(m, channelMap[c].messages) /\ ~(op = "MessageRemove" /\ m = Arg(loop)),
           \A h \in Guild : h # GuildOf(FirstCall) =>
               guildMap'[h] = guildMap[h] /\ memberMap'[h] = memberMap[h],
           \A h \in heard : h = GuildOf(FirstCall) =>
               /\ HasGuild(h)' /\ guildMap'[h].count = guildMap[h].count
               /\ guildMap'[h].channels = guildMap[h].channels
               /\ guildMap'[h].threads = guildMap[h].threads
               /\ truth[h].items = guildMap[h].items => guildMap'[h].items = guildMap[h].items
               /\ guildMap[h].members = memberMap[h] /\ memberMap[h] \subseteq truth[h].members
                      => /\ guildMap'[h].members = memberMap'[h]
                         /\ \/ memberMap'[h] = memberMap[h]
                            \/ /\ op = "ThreadMembersUpdate"
                               /\ memberMap[h] \subseteq memberMap'[h]
                               /\ memberMap'[h] \subseteq truth[h].members
    PROVE  QInv'
<1>1. PICK x \in Call : x = FirstCall
    BY FirstOf
<1>2. x.op = op /\ x.at = c /\ Arg(loop) = x.arg /\ FirstCall = Head(todo[loop]) /\ todo[loop] # <<>>
    BY <1>1, FirstOf
<1>3. UNCHANGED <<truth, heard, used, messages, told>>
    BY DEF gateway
<1>4. PICK g : g = GuildOf(x)
    OBVIOUS
<1>5. \A d \in Channel : /\ d # c => channelMap'[d] = channelMap[d]
                         /\ d = c => channelMap'[d] = rec
    BY DEF IInv, CacheOK
<1>6. rec # None
    BY NoneAssumption
<1>7. \A d \in Channel : HasChannel(d)' <=> HasChannel(d)
    BY <1>5, <1>6 DEF HasChannel
<1>8. \A d \in Channel : d \in Text \cup Thread /\ Home[d] # g => channelMap'[d] = channelMap[d]
    BY <1>2, <1>4, <1>5 DEF GuildOf
<1>9. ASSUME g \in heard PROVE RightNow(g)'
    <2>1. g \in Guild
        BY <1>9 DEF IInv, GatewayOK
    <2>2. todo[loop] # <<Op("GuildAdd", g, Whole(g, told[g]))>>
        <3>1. todo[loop] = <<Op("GuildAdd", g, Whole(g, told[g]))>> => x = Op("GuildAdd", g, Whole(g, told[g]))
            BY <1>1, <1>2
        <3> QED  BY <1>2, <3>1 DEF Op
    <2>3. RightNow(g) /\ guildMap[g] \in GuildRecord /\ truth[g] \in GuildRecord
        BY <1>9, <2>2, HeardHere
    <2>4. /\ \A t : ~Going(x, t) /\ ~Coming(x, t)
          /\ \A S : MembersThen(x, S) = S /\ ChannelsThen(x, S) = S /\ ItemsThen(x, S) = S
          /\ \A n : CountThen(x, n) = n
        BY <1>2 DEF Going, Coming, MembersThen, ChannelsThen, ItemsThen, CountThen
    <2>5. todo' = [todo EXCEPT ![loop] = Tail(@)]
        BY DEF Return
    <2>6. x = LastCall
        BY <1>1, <1>2, <2>5, LoopReturns
    <2>7. ThreadsRight(g, x) => ThreadsRight(g, NoCall)'
        <3>1. guildMap'[g].threads = guildMap[g].threads
            BY <1>1, <1>4, <1>9
        <3>2. \A t \in guildMap[g].threads \cup truth[g].threads : t \in Channel
            BY <2>3 DEF GuildRecord, Channel
        <3>3. \A t \in Channel : channelMap'[t].archived = channelMap[t].archived
            BY <1>5
        <3> QED  BY <1>3, <1>7, <2>4, <3>1, <3>2, <3>3 DEF ThreadsRight
    <2>8. MessagesRight(g, x) => MessagesRight(g, NoCall)'
        <3>1. ListOf(guildMap[g])' = ListOf(guildMap[g])
            BY <1>1, <1>4, <1>9 DEF ListOf
        <3>2. \A d \in ListOf(guildMap[g]) : d \in Channel
            BY <2>3 DEF GuildRecord, Channel, ListOf
        <3>3. ASSUME MessagesRight(g, x), NEW d \in ListOf(guildMap[g]), NEW m \in Message,
                     Contains(m, channelMap'[d].messages)
              PROVE  Contains(m, messages[d])
            <4>1. CASE d # c
                BY <1>2, <1>5, <3>2, <3>3, <4>1 DEF MessagesRight
            <4>2. CASE d = c
                <5>1. Contains(m, rec.messages)
                    BY <1>5, <3>2, <3>3, <4>2
                <5>2. CASE Contains(m, messages[c])
                    BY <4>2, <5>2
                <5>3. CASE Contains(m, channelMap[c].messages) /\ ~(op = "MessageRemove" /\ m = x.arg)
                    BY <1>2, <3>3, <4>2, <5>3 DEF MessagesRight
                <5> QED  BY <1>2, <5>1, <5>2, <5>3
            <4> QED  BY <4>1, <4>2
        <3>4. ASSUME MessagesRight(g, x), NEW d \in ListOf(guildMap[g])', NEW m \in Message,
                     Contains(m, channelMap'[d].messages)
              PROVE  Contains(m, messages'[d])
            BY <1>3, <3>1, <3>3, <3>4
        <3> QED  BY <3>4 DEF MessagesRight, Contains
    <2>9. /\ HasGuild(g)' /\ guildMap'[g].count = guildMap[g].count
          /\ guildMap'[g].channels = guildMap[g].channels
          /\ truth[g].items = ItemsThen(x, guildMap[g].items)
                => guildMap'[g].items = ItemsThen(x, guildMap[g].items)
        BY <1>1, <1>4, <1>9, <2>4
    <2>10. ( /\ "members" \in Track /\ guildMap[g].members = memberMap[g]
             /\ (x = LastCall => MembersThen(x, memberMap[g]) \subseteq truth[g].members) )
               => /\ guildMap'[g].members = memberMap'[g]
                  /\ \/ memberMap'[g] = MembersThen(x, memberMap[g])
                     \/ /\ x.op = "ThreadMembersUpdate"
                        /\ memberMap[g] \subseteq memberMap'[g]
                        /\ memberMap'[g] \subseteq truth[g].members
        BY <1>1, <1>2, <1>4, <1>9, <2>4, <2>6
    <2>11. /\ guildMap'[g].channels = ChannelsThen(x, guildMap[g].channels)
           /\ CountThen(x, guildMap[g].count) = guildMap'[g].count
        BY <2>4, <2>9
    <2> QED  BY <1>1, <1>2, <1>4, <2>1, <2>3, <2>5, <2>7, <2>8, <2>9, <2>10, <2>11, CallDone
<1>10. \A h \in heard : h # g =>
           /\ guildMap'[h] = guildMap[h] /\ memberMap'[h] = memberMap[h]
           /\ \A d \in Text \cup Thread : Home[d] = h => channelMap'[d] = channelMap[d]
    BY <1>1, <1>4, <1>8 DEF IInv, GatewayOK, Channel
<1>11. /\ \A d \in Text : HasChannel(d)' => HasChannel(d) \/ d \in used
       /\ \A d \in Thread : HasChannel(d)' => HasChannel(d) \/ Parent[d] \in used
    BY <1>7 DEF Channel
<1> QED  BY <1>1, <1>2, <1>4, <1>9, <1>10, <1>11, LoopReturn, LoopStep

\* What the loop looked up in the map of channels.
LEMMA LiveChannel ==
    ASSUME IInv, calls = 0, QInv, NEW op, Found(loop, op), At(loop) \in Channel
    PROVE  /\ HasChannel(At(loop)) /\ channelMap[At(loop)] \in ChannelRecord
           /\ \A rec : ChangeChannel(loop, rec) =>
                  channelMap' = [channelMap EXCEPT ![At(loop)] = rec]
<1>1. loop \in Proc /\ Live(loop)
    BY LoopLooks DEF Proc
<1>2. HasChannel(At(loop))
    BY <1>1 DEF IInv, Halves, Live
<1> QED  BY <1>1, <1>2, Entries DEF IInv, ChangeChannel

LEMMA MessageQ ==
    ASSUME IInv, calls = 0, QInv, Stored, MessageAdd(loop) \/ MessageRemove(loop)
    PROVE  QInv'
<1>1. \A h \in heard : HasGuild(h)
    <2>1. PICK op : Found(loop, op) /\ op \in {"MessageAdd", "MessageRemove"}
        BY DEF MessageAdd, MessageRemove
    <2>2. FirstCall.op = op /\ FirstCall = Head(todo[loop])
        BY <2>1, FirstOf DEF Found
    <2>3. \A h : todo[loop] # <<Op("GuildAdd", h, Whole(h, told[h]))>>
        BY <2>1, <2>2 DEF Op
    <2> QED  BY <2>3, HeardHere
<1>2. CASE MessageAdd(loop)
    <2>1. /\ NextCall(loop, "MessageAdd") /\ Found(loop, "MessageAdd") /\ Return(loop)
          /\ UNCHANGED <<guildMap, memberMap, gateway, calls, torn>>
        BY <1>2 DEF MessageAdd, Found
    <2>2. FirstCall \in Call /\ FirstCall.op = "MessageAdd" /\ At(loop) = FirstCall.at /\ Arg(loop) = FirstCall.arg
        BY <2>1, FirstOf
    <2>3. PICK c \in Channel, m \in Message : c = At(loop) /\ m = Arg(loop)
        BY <2>2, CallKinds DEF MessageOps
    <2>4. HasChannel(c) /\ channelMap[c] \in ChannelRecord
        BY <2>1, <2>3, LiveChannel
    <2>5. PICK old \in ChannelRecord : old = channelMap[c]
        BY <2>4
    <2>6. PICK list : list = IF Contains(m, old.messages) THEN old.messages
                             ELSE Newest(Append(old.messages, m))
        OBVIOUS
    <2>7. PICK rec : rec = [old EXCEPT !.messages = list]
        OBVIOUS
    <2>8. ChangeChannel(loop, rec)
        BY <1>2, <2>3, <2>5, <2>6, <2>7 DEF MessageAdd
    <2>9. channelMap' = [channelMap EXCEPT ![c] = rec]
        BY <2>1, <2>3, <2>8, LiveChannel
    <2>10. old.messages \in Seq(Message)
        BY DEF ChannelRecord
    <2>11. list \in Seq(Message)
        <3>1. Append(old.messages, m) \in Seq(Message)
            BY <2>3, <2>10
        <3> QED  BY <2>6, <2>10, <3>1, NewestType
    <2>12. rec \in ChannelRecord /\ rec.archived = old.archived /\ rec.messages = list
        BY <2>7, <2>11 DEF ChannelRecord
    <2>13. Contains(m, messages[c])
        BY <2>2, <2>3 DEF QInv, Due
    <2>14. \A x \in Message : Contains(x, list) => Contains(x, old.messages) \/ x = m
        <3>1. Tidy(old.messages)
            BY <2>4, <2>5 DEF Stored
        <3> QED  BY <2>3, <2>6, <2>10, <3>1, NewestTidy
    <2>15. PICK op : op = "MessageAdd"
        OBVIOUS
    <2>16. \A h \in heard : HasGuild(h)'
        BY <1>1, <2>1 DEF HasGuild
    <2>17. \A x \in Message : Contains(x, rec.messages) =>
               \/ Contains(x, messages[c])
               \/ Contains(x, channelMap[c].messages) /\ ~(op = "MessageRemove" /\ x = Arg(loop))
        BY <2>5, <2>12, <2>13, <2>14, <2>15
    <2> QED  BY <2>1, <2>3, <2>4, <2>5, <2>9, <2>12, <2>15, <2>16, <2>17, ChannelCallDone
<1>3. CASE MessageRemove(loop)
    <2>1. /\ NextCall(loop, "MessageRemove") /\ Found(loop, "MessageRemove") /\ Return(loop)
          /\ UNCHANGED <<guildMap, memberMap, gateway, calls, torn>>
        BY <1>3 DEF MessageRemove, Found
    <2>2. FirstCall \in Call /\ FirstCall.op = "MessageRemove" /\ At(loop) = FirstCall.at /\ Arg(loop) = FirstCall.arg
        BY <2>1, FirstOf
    <2>3. PICK c \in Channel, m \in Message : c = At(loop) /\ m = Arg(loop)
        BY <2>2, CallKinds DEF MessageOps
    <2>4. HasChannel(c) /\ channelMap[c] \in ChannelRecord
        BY <2>1, <2>3, LiveChannel
    <2>5. PICK old \in ChannelRecord : old = channelMap[c]
        BY <2>4
    <2>6. PICK list : list = Without(m, old.messages)
        OBVIOUS
    <2>7. PICK rec : rec = [old EXCEPT !.messages = list]
        OBVIOUS
    <2>8. ChangeChannel(loop, rec)
        BY <1>3, <2>3, <2>5, <2>6, <2>7 DEF MessageRemove
    <2>9. channelMap' = [channelMap EXCEPT ![c] = rec]
        BY <2>1, <2>3, <2>8, LiveChannel
    <2>10. old.messages \in Seq(Message)
        BY DEF ChannelRecord
    <2>11. list \in Seq(Message)
        BY <2>6, <2>10, WithoutType
    <2>12. rec \in ChannelRecord /\ rec.archived = old.archived /\ rec.messages = list
        BY <2>7, <2>11 DEF ChannelRecord
    <2>13. Tidy(old.messages)
        BY <2>4, <2>5 DEF Stored
    <2>14. \A x \in Message : Contains(x, list) => Contains(x, old.messages) /\ x # m
        BY <2>6, <2>10, <2>13, WithoutContains
    <2>15. PICK op : op = "MessageRemove"
        OBVIOUS
    <2>16. \A h \in heard : HasGuild(h)'
        BY <1>1, <2>1 DEF HasGuild
    <2>17. \A x \in Message : Contains(x, rec.messages) =>
               \/ Contains(x, messages[c])
               \/ Contains(x, channelMap[c].messages) /\ ~(op = "MessageRemove" /\ x = Arg(loop))
        BY <2>3, <2>5, <2>12, <2>14
    <2> QED  BY <2>1, <2>3, <2>4, <2>5, <2>9, <2>12, <2>15, <2>16, <2>17, ChannelCallDone
<1> QED  BY <1>2, <1>3

LEMMA ThreadMemberUpdateQ ==
    ASSUME IInv, calls = 0, QInv, ThreadMemberUpdate(loop)
    PROVE  QInv'
<1>1. /\ NextCall(loop, "ThreadMemberUpdate") /\ Found(loop, "ThreadMemberUpdate") /\ Return(loop)
      /\ UNCHANGED <<guildMap, memberMap, gateway, calls, torn>>
    BY DEF ThreadMemberUpdate, Found
<1>2. /\ FirstCall \in Call /\ FirstCall.op = "ThreadMemberUpdate" /\ At(loop) = FirstCall.at
      /\ FirstCall = Head(todo[loop])
    BY <1>1, FirstOf
<1>3. PICK c \in Channel : c = At(loop)
    BY <1>2, CallKinds DEF Channel
<1>4. HasChannel(c) /\ channelMap[c] \in ChannelRecord
    BY <1>1, <1>3, LiveChannel
<1>5. PICK rec : rec = [channelMap[c] EXCEPT !.mine = TRUE]
    OBVIOUS
<1>6. channelMap' = [channelMap EXCEPT ![c] = rec]
    BY <1>1, <1>3, <1>5, LiveChannel DEF ThreadMemberUpdate
<1>7. /\ rec \in ChannelRecord /\ rec.archived = channelMap[c].archived
      /\ rec.messages = channelMap[c].messages
    BY <1>4, <1>5 DEF ChannelRecord
<1>8. \A h : todo[loop] # <<Op("GuildAdd", h, Whole(h, told[h]))>>
    BY <1>2 DEF Op
<1>9. \A h \in heard : HasGuild(h)'
    BY <1>1, <1>8, HeardHere DEF HasGuild
<1>10. PICK op : op = "ThreadMemberUpdate"
    OBVIOUS
<1>11. /\ NextCall(loop, op) /\ op # "MessageRemove"
       /\ op \in {"MessageAdd", "MessageRemove", "ThreadMemberUpdate", "ThreadMembersUpdate"}
    BY <1>1, <1>10
<1>12. \A m \in Message : Contains(m, rec.messages) => Contains(m, channelMap[c].messages)
    BY <1>7
<1>13. /\ \A h : guildMap'[h] = guildMap[h] /\ memberMap'[h] = memberMap[h]
       /\ UNCHANGED <<gateway, calls, torn>> /\ Return(loop)
    BY <1>1
<1> QED  BY <1>3, <1>4, <1>6, <1>7, <1>9, <1>11, <1>12, <1>13, ChannelCallDone

LEMMA ThreadMembersUpdateQ ==
    ASSUME IInv, calls = 0, QInv, ThreadMembersUpdate(loop)
    PROVE  QInv'
<1>1. /\ NextCall(loop, "ThreadMembersUpdate") /\ Found(loop, "ThreadMembersUpdate") /\ Return(loop)
      /\ WithMembers(Home[At(loop)], Arg(loop).named, Arg(loop).presences)
      /\ UNCHANGED <<gateway, calls, torn>>
    BY DEF ThreadMembersUpdate, Found
<1>2. /\ FirstCall \in Call /\ FirstCall.op = "ThreadMembersUpdate" /\ At(loop) = FirstCall.at
      /\ Arg(loop) = FirstCall.arg /\ FirstCall = Head(todo[loop])
    BY <1>1, FirstOf
<1>3. PICK c \in Thread : c = At(loop)
    BY <1>2, CallKinds
<1>4. PICK S \in SUBSET User, I \in SUBSET Item : S = Arg(loop).named /\ I = Arg(loop).presences
    BY <1>2, CallKinds
<1>23. PICK A \in SUBSET User : A = Arg(loop).added
    BY <1>2, CallKinds
<1>5. c \in Channel
    BY DEF Channel
<1>6. HasChannel(c) /\ channelMap[c] \in ChannelRecord
    BY <1>1, <1>3, <1>5, LiveChannel
<1>7. PICK old \in ChannelRecord : old = channelMap[c]
    BY <1>6
<1>8. PICK T : T = {u \in old.members : ~\E r \in Arg(loop).removed : c = r} \cup A
    OBVIOUS
<1>9. PICK rec : rec = [old EXCEPT !.members = T]
    OBVIOUS
<1>10. ChangeChannel(loop, rec)
    BY <1>3, <1>23, <1>7, <1>8, <1>9 DEF ThreadMembersUpdate
<1>11. channelMap' = [channelMap EXCEPT ![c] = rec]
    BY <1>1, <1>3, <1>5, <1>10, LiveChannel
<1>12. T \in SUBSET User
    BY <1>8 DEF ChannelRecord
<1>13. rec \in ChannelRecord /\ rec.archived = old.archived /\ rec.messages = old.messages
    BY <1>9, <1>12 DEF ChannelRecord
<1>14. PICK g \in Guild : g = Home[c]
    BY ConstantsAssumption
<1>15. g = GuildOf(FirstCall)
    BY <1>2, <1>3, <1>14 DEF GuildOf
<1>16. \A h \in Guild : h # g => guildMap'[h] = guildMap[h] /\ memberMap'[h] = memberMap[h]
    BY <1>1, <1>3, <1>14 DEF WithMembers, IInv, CacheOK
<1>17. \A h : todo[loop] # <<Op("GuildAdd", h, Whole(h, told[h]))>>
    BY <1>2 DEF Op
<1>18. ASSUME g \in heard
       PROVE  /\ HasGuild(g)' /\ guildMap'[g].count = guildMap[g].count
              /\ guildMap'[g].channels = guildMap[g].channels
              /\ guildMap'[g].threads = guildMap[g].threads
              /\ truth[g].items = guildMap[g].items => guildMap'[g].items = guildMap[g].items
              /\ guildMap[g].members = memberMap[g] /\ memberMap[g] \subseteq truth[g].members
                    => /\ guildMap'[g].members = memberMap'[g]
                       /\ memberMap[g] \subseteq memberMap'[g]
                       /\ memberMap'[g] \subseteq truth[g].members
    <2>1. HasGuild(g) /\ memberMap[g] # None
        BY <1>17, <1>18, HeardHere
    <2>2. WithMembers(g, S, I)
        BY <1>1, <1>3, <1>4, <1>14
    <2>3. /\ HasGuild(g)' /\ memberMap'[g] = memberMap[g] \cup S
          /\ guildMap'[g].members = guildMap[g].members \cup (S \ memberMap[g])
          /\ guildMap'[g].channels = guildMap[g].channels
          /\ guildMap'[g].threads = guildMap[g].threads
          /\ guildMap'[g].items = guildMap[g].items \cup I
          /\ guildMap'[g].count = guildMap[g].count
        BY <2>1, <2>2, WithMembersDone
    <2>4. S \subseteq truth[g].members /\ I \subseteq truth[g].items
        BY <1>2, <1>3, <1>4, <1>14 DEF QInv, Due
    <2>5. guildMap[g].members = memberMap[g] => guildMap'[g].members = memberMap[g] \cup S
        BY <2>3
    <2>6. truth[g].items = guildMap[g].items => guildMap'[g].items = guildMap[g].items
        BY <2>3, <2>4
    <2>7. memberMap[g] \subseteq truth[g].members => memberMap'[g] \subseteq truth[g].members
        BY <2>3, <2>4
    <2> QED  BY <2>3, <2>5, <2>6, <2>7
<1>19. PICK op : op = "ThreadMembersUpdate"
    OBVIOUS
<1>20. \A m \in Message : Contains(m, rec.messages) => Contains(m, channelMap[c].messages)
    BY <1>7, <1>13
<1>21. rec.archived = channelMap[c].archived
    BY <1>7, <1>13
<1>22. /\ NextCall(loop, op) /\ op # "MessageRemove"
       /\ op \in {"MessageAdd", "MessageRemove", "ThreadMemberUpdate", "ThreadMembersUpdate"}
    BY <1>1, <1>19
<1> QED  BY <1>1, <1>3, <1>5, <1>6, <1>11, <1>13, <1>15, <1>16, <1>18, <1>20, <1>21, <1>22,
            ChannelCallDone

\* READY comes when the client hears of no guild.
LEMMA onReadyQ ==
    ASSUME IInv, calls = 0, QInv, onReady(loop)
    PROVE  QInv'
<1>1. /\ NextCall(loop, "Ready") /\ ReturnDetaching(loop, Arg(loop).guilds \cup Arg(loop).private)
      /\ channelMap' = [c \in Channel |-> IF c \in Arg(loop).private THEN NewChannel
                                          ELSE channelMap[c]]
      /\ UNCHANGED <<gateway, calls, events, torn>>
    BY DEF onReady
<1>2. FirstCall \in Call /\ FirstCall.op = "Ready" /\ Arg(loop) = FirstCall.arg /\ todo[loop] # <<>>
    BY <1>1, FirstOf
<1>3. heard = {}
    BY <1>2 DEF QInv, Due
<1>4. Arg(loop).private \subseteq Private
    BY <1>2, CallKinds
<1>5. \A c \in Text \cup Thread : channelMap'[c] = channelMap[c]
    BY <1>1, <1>4, ConstantsAssumption DEF Channel
<1>6. PICK g : g = GuildOf(FirstCall)
    OBVIOUS
<1> QED  BY <1>1, <1>2, <1>3, <1>5, <1>6, LoopReturn, LoopStep DEF HasChannel

\* A call of the loop that finds nothing had nothing to change.
LEMMA LookQ ==
    ASSUME IInv, calls = 0, QInv, Look(loop)
    PROVE  QInv'
<1>1. /\ todo[loop] # <<>> /\ Head(todo[loop]).op \in GuildOps \cup ChannelOps
      /\ UNCHANGED <<cache, oldThreads, gateway, calls, events, torn>>
    BY DEF Look
<1>2. /\ UNCHANGED <<guildMap, memberMap, channelMap>>
      /\ UNCHANGED <<truth, heard, used, messages, told>>
    BY <1>1 DEF cache, gateway
<1>3. PICK x : x = FirstCall
    OBVIOUS
<1>4. x = Head(todo[loop]) /\ x.op \in GuildOps \cup ChannelOps /\ x \in Call
    BY <1>1, <1>3, First DEF FirstCall, IInv, Proc
<1>5. At(loop) = x.at /\ Arg(loop) = x.arg
    BY <1>4 DEF At, Arg
<1>6. loop \in Proc /\ loop \notin Program
    BY ConstantsAssumption DEF Proc
<1>7. \A h : todo[loop] # <<Op("GuildAdd", h, Whole(h, told[h]))>>
    BY <1>4 DEF Op, GuildOps, ChannelOps
<1>8. CASE UNCHANGED todo /\ looked' = [looked EXCEPT ![loop] = "live"]
    <2>1. Alone'
        BY <1>1, <1>6, <1>8 DEF QInv, Alone, IInv, CallsOK
    <2>2. Given'
        BY <1>2 DEF QInv, Given, HasChannel
    <2>3. FirstCall' = FirstCall /\ LastCall' = LastCall
        BY <1>8 DEF FirstCall, LastCall
    <2>4. Due(FirstCall)' /\ ThenDue'
        BY <1>2, <1>8, <2>3 DEF QInv, Due, ThenDue, Whole
    <2>5. ASSUME NEW h \in heard PROVE RightNow(h)'
        <3>1. PICK y, z : y = For(h, FirstCall) /\ z = For(h, LastCall)
            OBVIOUS
        <3>2. Right(h, y, z)
            BY <1>7, <3>1, HeardHere DEF RightNow
        <3>3. Right(h, y, z)'
            BY <1>2, <3>2 DEF Right, HasGuild, HasChannel, CountRight, MembersRight, ChannelsRight,
               ThreadsRight, ItemsRight, MessagesRight, ListOf
        <3>4. y = For(h, FirstCall)' /\ z = For(h, LastCall)'
            BY <2>3, <3>1 DEF For
        <3> QED  BY <3>3, <3>4 DEF RightNow
    <2> QED  BY <1>2, <2>1, <2>2, <2>4, <2>5 DEF QInv
<1>9. CASE /\ looked' = looked
           /\ todo' = [todo EXCEPT ![loop] = IF Head(@).op = "MemberCount" THEN <<>> ELSE Tail(@)]
           /\ \/ x.op = "ChannelRemove" /\ ~HasChannel(x.arg)
              \/ x.at \in Guild /\ ~HasGuild(x.at)
              \/ x.at \in Channel /\ x.at \notin Guild /\ ~HasChannel(x.at)
    <2>1. \A h \in heard : HasGuild(h) /\ RightNow(h) /\ h \in Guild /\ guildMap[h] \in GuildRecord
        BY <1>7, HeardHere
    <2>2. \A h \in heard : \A c \in ListOf(guildMap[h]) : HasChannel(c)
        BY <2>1 DEF IInv, ChannelsAgree, QInv, Alone
    <2>3. x.op # "MemberCount"
        <3>1. ASSUME x.op = "MemberCount" PROVE FALSE
            <4>1. x.at \in heard
                BY <1>3, <3>1 DEF QInv, Due, GuildCallOps
            <4>2. x.at \notin Channel
                BY <2>1, <4>1, ConstantsAssumption
            <4> QED  BY <1>9, <2>1, <3>1, <4>1, <4>2
        <3> QED  BY <3>1
    <2>4. todo' = [todo EXCEPT ![loop] = Tail(@)]
        BY <1>4, <1>9, <2>3
    <2>5. PICK g : g = GuildOf(x)
        OBVIOUS
    <2>6. ASSUME g \in heard PROVE RightNow(g)'
        <3>1. x.at \notin Guild \/ HasGuild(x.at)
            BY <2>1, <2>5, <2>6, ConstantsAssumption DEF GuildOf, Channel
        <3>2. \/ x.op = "ChannelRemove" /\ ~HasChannel(x.arg)
              \/ x.at \in Channel /\ ~HasChannel(x.at)
            BY <1>9, <3>1
        <3>3. x.op \notin GuildCallOps
            <4>1. ASSUME x.op \in GuildCallOps PROVE FALSE
                <5>1. x.at \in heard
                    BY <1>3, <4>1 DEF QInv, Due
                <5>2. x.at \notin Channel
                    BY <2>1, <5>1, ConstantsAssumption
                <5> QED  BY <3>2, <4>1, <5>2 DEF GuildCallOps
            <4> QED  BY <4>1
        <3>4. /\ \A n : CountThen(x, n) = n
              /\ \A S : MembersThen(x, S) = S /\ ItemsThen(x, S) = S
            BY <1>4, <3>3 DEF CountThen, MembersThen, ItemsThen, GuildCallOps
        <3>5. ChannelsThen(x, guildMap[g].channels) = guildMap[g].channels
            <4>1. CASE x.op = "ChannelRemove"
                <5>1. ~HasChannel(x.arg)
                    BY <1>4, <3>2, <4>1, CallKinds, ConstantsAssumption
                <5>2. x.arg \notin guildMap[g].channels
                    BY <2>2, <2>6, <5>1 DEF ListOf
                <5> QED  BY <4>1, <5>2 DEF ChannelsThen
            <4>2. CASE x.op # "ChannelRemove"
                BY <1>4, <4>2 DEF ChannelsThen, GuildOps, ChannelOps
            <4> QED  BY <4>1, <4>2
        <3>6. ThreadsRight(g, x) => ThreadsRight(g, NoCall)'
            <4>1. \A t : ~Coming(x, t)
                BY <1>4 DEF Coming, GuildOps, ChannelOps
            <4>2. \A t \in guildMap[g].threads : ~Going(x, t)
                <5>1. ASSUME NEW t \in guildMap[g].threads, Going(x, t) PROVE FALSE
                    <6>1. x.op = "ChannelRemove" /\ x.arg = t
                        BY <1>4, <5>1 DEF Going, GuildOps, ChannelOps
                    <6>2. ~HasChannel(x.arg)
                        BY <1>4, <3>2, <6>1, CallKinds, ConstantsAssumption
                    <6>3. HasChannel(t)
                        BY <2>2, <2>6, <5>1 DEF ListOf
                    <6> QED  BY <6>1, <6>2, <6>3
                <5> QED  BY <5>1
            <4> QED  BY <1>2, <4>1, <4>2 DEF ThreadsRight, HasChannel
        <3>7. MessagesRight(g, x) => MessagesRight(g, NoCall)'
            <4>1. \A c \in ListOf(guildMap[g]) : ~(x.op = "MessageRemove" /\ x.at = c)
                <5>1. ASSUME NEW c \in ListOf(guildMap[g]), x.op = "MessageRemove", x.at = c PROVE FALSE
                    <6>1. ~HasChannel(c)
                        BY <3>2, <5>1
                    <6> QED  BY <2>2, <2>6, <5>1, <6>1
                <5> QED  BY <5>1
            <4> QED  BY <1>2, <4>1 DEF MessagesRight, ListOf
        <3>8. HasGuild(g)'
            BY <1>2, <2>1, <2>6 DEF HasGuild
        <3>9. RightNow(g) /\ g \in Guild
            BY <2>1, <2>6
        <3>10. /\ CountThen(x, guildMap[g].count) = guildMap'[g].count
               /\ memberMap'[g] = MembersThen(x, memberMap[g])
               /\ guildMap'[g].items = ItemsThen(x, guildMap[g].items)
               /\ guildMap'[g].channels = ChannelsThen(x, guildMap[g].channels)
               /\ guildMap'[g].members = guildMap[g].members /\ memberMap'[g] = memberMap[g]
            BY <1>2, <3>4, <3>5
        <3> QED  BY <1>1, <1>3, <2>4, <2>5, <3>6, <3>7, <3>8, <3>9, <3>10, CallDone
    <2>7. looked' \in [Proc -> {"no", "live", "gone"}] /\ looked'[loop] # "gone"
        BY <1>6, <1>9 DEF QInv, Alone, IInv, CallsOK
    <2> QED  BY <1>1, <1>2, <1>3, <2>4, <2>5, <2>6, <2>7, LoopStep DEF HasChannel
<1> QED  BY <1>4, <1>5, <1>8, <1>9 DEF Look

\* A channel that comes or changes.
LEMMA ChannelAddQ ==
    ASSUME IInv, calls = 0, QInv, ChannelAdd(loop)
    PROVE  QInv'
<1>1. /\ NextCall(loop, "ChannelAdd") /\ Return(loop)
      /\ UNCHANGED <<memberMap, gateway, calls, torn>>
    BY DEF ChannelAdd
<1>2. PICK x \in Call : x = FirstCall
    BY <1>1, FirstOf
<1>3. /\ x.op = "ChannelAdd" /\ At(loop) = x.at /\ Arg(loop) = x.arg
      /\ x = Head(todo[loop]) /\ todo[loop] # <<>>
    BY <1>1, <1>2, FirstOf
<1>4. PICK c \in Channel : c = x.at
    BY <1>2, <1>3, CallKinds
<1>5. x.arg \in BOOLEAN
    BY <1>2, <1>3, CallKinds
<1>6. UNCHANGED <<truth, heard, used, messages, told>>
    BY <1>1 DEF gateway
<1>7. PICK old : old = IF HasChannel(c) THEN channelMap[c] ELSE NewChannel
    OBVIOUS
<1>8. old \in ChannelRecord
    BY <1>7, NewTypes, Entries DEF IInv
<1>9. PICK rec : rec = [NewChannel EXCEPT !.messages = old.messages, !.archived = x.arg]
    OBVIOUS
<1>10. rec.messages = old.messages /\ rec.archived = x.arg /\ rec \in ChannelRecord
    BY <1>5, <1>8, <1>9 DEF NewChannel, ChannelRecord
<1>11. rec # None
    BY <1>10, NoneAssumption
<1>12. \A h : todo[loop] # <<Op("GuildAdd", h, Whole(h, told[h]))>>
    BY <1>3 DEF Op
<1>13. /\ todo' = [todo EXCEPT ![loop] = Tail(@)]
       /\ looked' \in [Proc -> {"no", "live", "gone"}] /\ looked'[loop] # "gone"
    BY <1>1, LoopReturn
<1>14. PICK g : g = GuildOf(x)
    OBVIOUS
<1>15. /\ c \in Text => c \in used
       /\ c \in Thread => Parent[c] \in used
    BY <1>2, <1>3, <1>4 DEF QInv, Due
<1>16. \/ UNCHANGED channelMap
       \/ channelMap' = [channelMap EXCEPT ![c] = rec]
    <2>1. CASE HasChannel(c)
        BY <1>3, <1>4, <1>7, <1>9, <2>1 DEF ChannelAdd
    <2>2. CASE ~HasChannel(c)
        BY <1>3, <1>4, <1>7, <1>9, <2>2 DEF ChannelAdd
    <2> QED  BY <2>1, <2>2
<1>17. \A d \in Channel : d # c => channelMap'[d] = channelMap[d]
    BY <1>16 DEF IInv, CacheOK
<1>18. /\ \A d \in Text : HasChannel(d)' => HasChannel(d) \/ d \in used
       /\ \A d \in Thread : HasChannel(d)' => HasChannel(d) \/ Parent[d] \in used
    BY <1>15, <1>17 DEF HasChannel, Channel
<1>19. CASE c \in Private
    <2>1. UNCHANGED guildMap
        BY <1>3, <1>4, <1>19 DEF ChannelAdd
    <2>2. c \notin Text \cup Thread /\ c \notin Guild
        BY <1>19, ConstantsAssumption
    <2>3. g \notin heard
        BY <1>4, <1>14, <2>2 DEF GuildOf, IInv, GatewayOK
    <2> QED  BY <1>1, <1>2, <1>3, <1>6, <1>13, <1>14, <1>17, <1>18, <2>1, <2>2, <2>3, LoopStep DEF Channel
<1>20. CASE c \notin Private
    <2>1. c \in Text \cup Thread /\ g = Home[c] /\ g \in Guild
        BY <1>4, <1>14, <1>20, ConstantsAssumption DEF GuildOf, Channel
    <2>2. /\ HasChannel(c) => UNCHANGED guildMap /\ channelMap' = [channelMap EXCEPT ![c] = rec]
          /\ ~HasChannel(c) /\ HasGuild(g) =>
                 /\ channelMap' = [channelMap EXCEPT ![c] = rec]
                 /\ guildMap' = IF c \in Thread
                                THEN [guildMap EXCEPT ![g].threads = @ \cup {c}]
                                ELSE [guildMap EXCEPT ![g].channels = @ \cup {c}]
          /\ ~HasChannel(c) /\ ~HasGuild(g) => UNCHANGED guildMap
        <3>1. CASE HasChannel(c)
            BY <1>3, <1>4, <1>7, <1>9, <3>1 DEF ChannelAdd
        <3>2. CASE ~HasChannel(c) /\ HasGuild(g)
            BY <1>3, <1>4, <1>7, <1>9, <1>20, <2>1, <3>2 DEF ChannelAdd
        <3>3. CASE ~HasChannel(c) /\ ~HasGuild(g)
            BY <1>3, <1>4, <1>20, <2>1, <3>3 DEF ChannelAdd
        <3> QED  BY <3>1, <3>2, <3>3
    <2>3. \A h \in Guild : h # g => guildMap'[h] = guildMap[h]
        BY <2>1, <2>2 DEF IInv, CacheOK
    <2>4. ASSUME g \in heard PROVE RightNow(g)'
        <3>1. RightNow(g) /\ HasGuild(g) /\ guildMap[g] \in GuildRecord
            BY <1>12, <2>4, HeardHere
        <3>2. channelMap'[c] = rec /\ HasChannel(c)'
            BY <1>11, <2>2, <3>1 DEF HasChannel, IInv, CacheOK
        <3>3. /\ guildMap'[g].members = guildMap[g].members /\ guildMap'[g].count = guildMap[g].count
              /\ guildMap'[g].items = guildMap[g].items
              /\ \/ guildMap'[g].channels = guildMap[g].channels
                 \/ /\ guildMap'[g].channels = guildMap[g].channels \cup {c}
                    /\ c \in Text /\ ~HasChannel(c)
              /\ \/ guildMap'[g].threads = guildMap[g].threads
                 \/ guildMap'[g].threads = guildMap[g].threads \cup {c} /\ c \in Thread
              /\ c \in Text /\ ~HasChannel(c) => guildMap'[g].channels = guildMap[g].channels \cup {c}
              /\ HasGuild(g)' /\ (ListOf(guildMap[g])' \subseteq ListOf(guildMap[g]) \cup {c})
            <4>1. CASE HasChannel(c)
                <5>1. guildMap' = guildMap
                    BY <2>2, <4>1
                <5>2. ListOf(guildMap[g])' = ListOf(guildMap[g]) /\ HasGuild(g)'
                    BY <3>1, <5>1 DEF HasGuild, ListOf
                <5> QED  BY <4>1, <5>1, <5>2
            <4>2. CASE ~HasChannel(c) /\ c \in Thread
                <5>1. PICK r : r = [guildMap[g] EXCEPT !.threads = @ \cup {c}]
                    OBVIOUS
                <5>2. guildMap'[g] = r
                    BY <2>1, <2>2, <3>1, <4>2, <5>1 DEF IInv, CacheOK
                <5>3. /\ r \in GuildRecord /\ r.members = guildMap[g].members
                      /\ r.count = guildMap[g].count /\ r.items = guildMap[g].items
                      /\ r.channels = guildMap[g].channels
                      /\ r.threads = guildMap[g].threads \cup {c}
                    BY <3>1, <4>2, <5>1 DEF GuildRecord
                <5>4. c \notin Text
                    BY <4>2, ConstantsAssumption
                <5>5. HasGuild(g)'
                    BY <5>2, <5>3, NoneAssumption DEF HasGuild
                <5>6. ListOf(guildMap[g])' = ListOf(guildMap[g]) \cup {c}
                    BY <5>2, <5>3 DEF ListOf
                <5> QED  BY <4>2, <5>2, <5>3, <5>4, <5>5, <5>6
            <4>3. CASE ~HasChannel(c) /\ c \notin Thread
                <5>1. PICK r : r = [guildMap[g] EXCEPT !.channels = @ \cup {c}]
                    OBVIOUS
                <5>2. guildMap'[g] = r /\ c \in Text
                    BY <2>1, <2>2, <3>1, <4>3, <5>1 DEF IInv, CacheOK
                <5>3. /\ r \in GuildRecord /\ r.members = guildMap[g].members
                      /\ r.count = guildMap[g].count /\ r.items = guildMap[g].items
                      /\ r.threads = guildMap[g].threads
                      /\ r.channels = guildMap[g].channels \cup {c}
                    BY <3>1, <5>1, <5>2 DEF GuildRecord
                <5>4. HasGuild(g)'
                    BY <5>2, <5>3, NoneAssumption DEF HasGuild
                <5>5. ListOf(guildMap[g])' = ListOf(guildMap[g]) \cup {c}
                    BY <5>2, <5>3 DEF ListOf
                <5> QED  BY <4>3, <5>2, <5>3, <5>4, <5>5
            <4> QED  BY <4>1, <4>2, <4>3
        <3>4. /\ \A n : CountThen(x, n) = n
              /\ \A S : MembersThen(x, S) = S /\ ItemsThen(x, S) = S
              /\ \A S : ChannelsThen(x, S) = IF c \in Text THEN S \cup {c} ELSE S
              /\ \A t : Going(x, t) <=> t = c /\ x.arg
              /\ \A t : Coming(x, t) <=> t = c /\ ~x.arg
            BY <1>3, <1>4, Zenon DEF CountThen, MembersThen, ItemsThen, ChannelsThen, Going, Coming
        <3>5. "channels" \in Track => guildMap'[g].channels = ChannelsThen(x, guildMap[g].channels)
            <4>1. "channels" \in Track /\ c \in Text /\ HasChannel(c) => c \in guildMap[g].channels
                BY <1>2, <1>3, <1>4, <1>14, <3>1 DEF RightNow, Right, For, ChannelsRight
            <4> QED  BY <3>3, <3>4, <4>1
        <3>6. ASSUME ThreadsRight(g, x) PROVE ThreadsRight(g, NoCall)'
            <4>1. c \in Thread => (x.arg <=> c \notin truth[g].threads)
                BY <1>2, <1>3, <1>4, <2>1 DEF QInv, Due
            <4>2. \A t \in guildMap[g].threads \cup truth[g].threads : t \in Thread /\ t \in Channel
                BY <2>1, <3>1, TruthLists DEF GuildRecord, Channel
            <4>3. ASSUME "threads" \in Track, NEW t \in guildMap'[g].threads
                  PROVE  \/ channelMap'[t].archived \/ t \in truth[g].threads
                         \/ Parent[t] \notin truth[g].channels
                <5>1. CASE t = c
                    <6>1. c \in Thread
                        BY <3>3, <4>2, <4>3, <5>1
                    <6> QED  BY <1>10, <3>2, <4>1, <5>1, <6>1
                <5>2. CASE t # c
                    <6>1. t \in guildMap[g].threads
                        BY <3>3, <4>3, <5>2
                    <6>2. ~Going(x, t) /\ channelMap'[t] = channelMap[t]
                        BY <1>17, <3>4, <4>2, <5>2, <6>1
                    <6> QED  BY <3>6, <4>3, <6>1, <6>2 DEF ThreadsRight
                <5> QED  BY <5>1, <5>2
            <4>4. ASSUME "threads" \in Track, NEW t \in truth[g].threads
                  PROVE  HasChannel(t)' /\ ~channelMap'[t].archived
                <5>1. CASE t = c
                    <6>1. c \in Thread
                        BY <4>2, <4>4, <5>1
                    <6>2. ~x.arg
                        BY <4>1, <4>4, <5>1, <6>1
                    <6> QED  BY <1>10, <3>2, <5>1, <6>2
                <5>2. CASE t # c
                    <6>1. ~Coming(x, t) /\ channelMap'[t] = channelMap[t]
                        BY <1>17, <3>4, <4>2, <4>4, <5>2
                    <6> QED  BY <3>6, <4>4, <6>1 DEF ThreadsRight, HasChannel
                <5> QED  BY <5>1, <5>2
            <4> QED  BY <1>6, <4>3, <4>4 DEF ThreadsRight
        <3>7. ASSUME MessagesRight(g, x) PROVE MessagesRight(g, NoCall)'
            <4>1. ASSUME NEW d \in ListOf(guildMap[g])', NEW m \in Message,
                         Contains(m, channelMap'[d].messages)
                  PROVE  Contains(m, messages[d])
                <5>1. CASE d \in ListOf(guildMap[g]) /\ channelMap'[d].messages = channelMap[d].messages
                    <6>1. Contains(m, channelMap[d].messages)
                        BY <4>1, <5>1
                    <6> QED  BY <1>3, <3>7, <5>1, <6>1 DEF MessagesRight
                <5>2. CASE d = c /\ ~HasChannel(c)
                    <6>1. channelMap'[d].messages = <<>>
                        BY <1>7, <1>10, <3>2, <5>2 DEF NewChannel
                    <6> QED  BY <4>1, <6>1 DEF Contains
                <5>3. d \in ListOf(guildMap[g]) \/ (d = c /\ ~HasChannel(c))
                    <6>1. CASE HasChannel(c)
                        <7>1. guildMap' = guildMap
                            BY <2>2, <6>1
                        <7>2. ListOf(guildMap[g])' = ListOf(guildMap[g])
                            BY <7>1 DEF ListOf
                        <7> QED  BY <7>2
                    <6>2. CASE ~HasChannel(c)
                        BY <3>3, <4>1, <6>2
                    <6> QED  BY <6>1, <6>2
                <5>4. d \in ListOf(guildMap[g]) => d \in Channel
                    BY <3>1 DEF ListOf, GuildRecord, Channel
                <5>5. d \in ListOf(guildMap[g]) /\ HasChannel(c) =>
                          channelMap'[d].messages = channelMap[d].messages
                    BY <1>7, <1>10, <1>17, <3>2, <5>4
                <5>6. d \in ListOf(guildMap[g]) /\ d # c =>
                          channelMap'[d].messages = channelMap[d].messages
                    BY <1>17, <5>4
                <5> QED  BY <5>1, <5>2, <5>3, <5>5, <5>6
            <4>2. \A d \in ListOf(guildMap[g])', m \in Message :
                      Contains(m, channelMap'[d].messages) => Contains(m, messages'[d])
                BY <1>6, <4>1
            <4> QED  BY <4>2 DEF MessagesRight, Contains
        <3>8. /\ CountThen(x, guildMap[g].count) = guildMap'[g].count
              /\ guildMap'[g].items = ItemsThen(x, guildMap[g].items)
              /\ memberMap'[g] = MembersThen(x, memberMap[g]) /\ memberMap'[g] = memberMap[g]
              /\ guildMap'[g].members = guildMap[g].members /\ HasGuild(g)'
            BY <1>1, <3>3, <3>4
        <3> QED  BY <1>1, <1>2, <1>3, <1>13, <1>14, <2>1, <3>1, <3>5, <3>6, <3>7, <3>8, CallDone
    <2>5. \A h \in heard : h # g =>
              /\ guildMap'[h] = guildMap[h] /\ memberMap'[h] = memberMap[h]
              /\ \A d \in Text \cup Thread : Home[d] = h => channelMap'[d] = channelMap[d]
        BY <1>1, <1>17, <2>1, <2>3 DEF IInv, GatewayOK, Channel
    <2> QED  BY <1>1, <1>2, <1>3, <1>13, <1>14, <1>18, <2>4, <2>5, LoopStep
<1> QED  BY <1>19, <1>20

\* A channel that goes.
LEMMA ChannelRemoveQ ==
    ASSUME IInv, calls = 0, QInv, ChannelRemove(loop)
    PROVE  QInv'
<1>1. /\ NextCall(loop, "ChannelRemove") /\ Live(loop)
      /\ channelMap' = [channelMap EXCEPT ![Arg(loop)] = None]
      /\ UNCHANGED <<memberMap, gateway, calls>>
      /\ ReturnDetaching(loop, {Arg(loop)})
    BY LoopLooks DEF ChannelRemove, Found
<1>2. PICK x \in Call : x = FirstCall
    BY <1>1, FirstOf
<1>3. /\ x.op = "ChannelRemove" /\ At(loop) = x.at /\ Arg(loop) = x.arg
      /\ x = Head(todo[loop]) /\ todo[loop] # <<>>
    BY <1>1, <1>2, FirstOf
<1>4. PICK c \in Channel : c = x.arg
    BY <1>2, <1>3, CallKinds DEF Channel
<1>5. UNCHANGED <<truth, heard, used, messages, told>>
    BY <1>1 DEF gateway
<1>6. /\ channelMap'[c] = None
      /\ \A d \in Channel : d # c => channelMap'[d] = channelMap[d]
    BY <1>1, <1>3, <1>4 DEF IInv, CacheOK
<1>7. /\ todo' = [todo EXCEPT ![loop] = Tail(@)]
      /\ looked' \in [Proc -> {"no", "live", "gone"}] /\ looked'[loop] # "gone"
    BY <1>1, LoopReturn
<1>8. torn' = torn
    BY <1>1 DEF ChannelRemove, Tear
<1>9. \A d \in Text \cup Thread : HasChannel(d)' => HasChannel(d)
    BY <1>6 DEF HasChannel, Channel
<1>10. PICK g : g = GuildOf(x)
    OBVIOUS
<1>11. CASE c \in Private
    <2>1. UNCHANGED guildMap
        BY <1>3, <1>4, <1>11 DEF ChannelRemove
    <2>2. c \notin Text \cup Thread
        BY <1>11, ConstantsAssumption
    <2>3. x.at = None
        BY <1>2, <1>3, <1>4, <2>2, CallKinds
    <2>4. g = None
        BY <1>10, <2>3, ConstantsAssumption DEF GuildOf, Channel
    <2>5. g \notin heard
        BY <2>4, ConstantsAssumption DEF IInv, GatewayOK
    <2>6. \A d \in Text \cup Thread : channelMap'[d] = channelMap[d]
        BY <1>6, <2>2 DEF Channel
    <2> QED  BY <1>1, <1>2, <1>3, <1>7, <1>8, <1>9, <1>10, <2>1, <2>5, <2>6, LoopStep
<1>12. CASE c \notin Private
    <2>1. c \in Text \cup Thread /\ x.at = Home[c] /\ x.at \in Guild
        BY <1>2, <1>3, <1>4, <1>12, CallKinds DEF Channel
    <2>2. g = x.at
        BY <1>10, <2>1, ConstantsAssumption DEF GuildOf, Channel
    <2>3. PICK rec : rec = [guildMap[g] EXCEPT !.channels = @ \ {c}, !.threads = @ \ {c}]
        OBVIOUS
    <2>4. ChangeGuild(loop, rec)
        BY <1>3, <1>4, <1>12, <2>2, <2>3 DEF ChannelRemove
    <2>5. guildMap'[g] = rec /\ \A h \in Guild : h # g => guildMap'[h] = guildMap[h]
        BY <1>1, <1>3, <2>1, <2>2, <2>4, LiveChange
    <2>6. ASSUME g \in heard PROVE RightNow(g)'
        <3>1. todo[loop] # <<Op("GuildAdd", g, Whole(g, told[g]))>>
            BY <1>3 DEF Op
        <3>2. RightNow(g) /\ HasGuild(g) /\ guildMap[g] \in GuildRecord
            BY <2>6, <3>1, HeardHere
        <3>3. /\ rec \in GuildRecord /\ rec.members = guildMap[g].members
              /\ rec.count = guildMap[g].count /\ rec.items = guildMap[g].items
              /\ rec.channels = guildMap[g].channels \ {c}
              /\ rec.threads = guildMap[g].threads \ {c}
            BY <2>3, <3>2 DEF GuildRecord
        <3>4. HasGuild(g)'
            BY <2>5, <3>3, NoneAssumption DEF HasGuild
        <3>5. /\ \A n : CountThen(x, n) = n
              /\ \A S : /\ MembersThen(x, S) = S /\ ItemsThen(x, S) = S
                        /\ ChannelsThen(x, S) = S \ {c}
              /\ \A t : (Going(x, t) <=> t = c) /\ ~Coming(x, t)
            BY <1>3, <1>4 DEF CountThen, MembersThen, ItemsThen, ChannelsThen, Going, Coming
        <3>6. c \notin truth[g].threads
            <4>1. c \in Thread => c \notin truth[g].threads
                BY <1>2, <1>3, <1>4, <2>2 DEF QInv, Due
            <4> QED  BY <2>1, <2>2, <4>1, TruthLists
        <3>7. ASSUME ThreadsRight(g, x) PROVE ThreadsRight(g, NoCall)'
            <4>1. \A t \in guildMap[g].threads \cup truth[g].threads : t \in Channel
                BY <2>1, <2>2, <3>2, TruthLists DEF GuildRecord, Channel
            <4>2. \A t \in rec.threads \cup truth[g].threads : t # c /\ channelMap'[t] = channelMap[t]
                BY <1>6, <3>3, <3>6, <4>1
            <4>3. \A t \in rec.threads : t \in guildMap[g].threads /\ ~Going(x, t)
                BY <3>3, <3>5
            <4> QED  BY <1>5, <2>5, <3>5, <3>7, <4>2, <4>3 DEF ThreadsRight, HasChannel
        <3>8. ASSUME MessagesRight(g, x) PROVE MessagesRight(g, NoCall)'
            <4>1. ListOf(guildMap[g])' = ListOf(guildMap[g]) \ {c}
                BY <2>5, <3>3 DEF ListOf
            <4>2. \A d \in ListOf(guildMap[g]) : d \in Channel
                BY <3>2 DEF ListOf, GuildRecord, Channel
            <4>3. \A d \in ListOf(guildMap[g]) \ {c} :
                      d \in ListOf(guildMap[g]) /\ channelMap'[d] = channelMap[d]
                BY <1>6, <4>2
            <4> QED  BY <1>3, <1>5, <3>8, <4>1, <4>3 DEF MessagesRight
        <3>9. /\ CountThen(x, guildMap[g].count) = guildMap'[g].count
              /\ guildMap'[g].items = ItemsThen(x, guildMap[g].items)
              /\ guildMap'[g].channels = ChannelsThen(x, guildMap[g].channels)
              /\ memberMap'[g] = MembersThen(x, memberMap[g]) /\ memberMap'[g] = memberMap[g]
              /\ guildMap'[g].members = guildMap[g].members
            BY <1>1, <2>5, <3>3, <3>5
        <3> QED  BY <1>1, <1>2, <1>3, <1>7, <1>10, <2>1, <2>2, <3>2, <3>4, <3>7, <3>8, <3>9, CallDone
    <2>7. \A h \in heard : h # g =>
              /\ guildMap'[h] = guildMap[h] /\ memberMap'[h] = memberMap[h]
              /\ \A d \in Text \cup Thread : Home[d] = h => channelMap'[d] = channelMap[d]
        BY <1>1, <1>6, <2>1, <2>2, <2>5 DEF IInv, GatewayOK, Channel
    <2> QED  BY <1>1, <1>2, <1>3, <1>7, <1>8, <1>9, <1>10, <2>6, <2>7, LoopStep
<1> QED  BY <1>11, <1>12

\* The active threads of some channels, or of the guild.
LEMMA ThreadListSyncQ ==
    ASSUME IInv, calls = 0, QInv, ThreadListSync(loop)
    PROVE  QInv'
<1>1. /\ NextCall(loop, "ThreadListSync") /\ Found(loop, "ThreadListSync") /\ Live(loop)
      /\ UNCHANGED <<memberMap, gateway, calls>>
    BY LoopLooks DEF ThreadListSync, Found
<1>2. PICK x \in Call : x = FirstCall
    BY <1>1, FirstOf
<1>3. /\ x.op = "ThreadListSync" /\ At(loop) = x.at /\ Arg(loop) = x.arg
      /\ x = Head(todo[loop]) /\ todo[loop] # <<>>
    BY <1>1, <1>2, FirstOf
<1>4. PICK g \in Guild : g = x.at
    BY <1>2, <1>3, CallKinds
<1>5. /\ g \in heard /\ RightNow(g) /\ HasGuild(g) /\ guildMap[g] \in GuildRecord
    BY <1>1, <1>2, <1>4, CallHere, HeardHere DEF GuildCallOps
<1>6. UNCHANGED <<truth, heard, used, messages, told>>
    BY <1>1 DEF gateway
<1>7. PICK had : had = guildMap[g].threads
    OBVIOUS
<1>8. PICK ids : ids = x.arg.ids
    OBVIOUS
<1>9. PICK synced : synced = x.arg.threads
    OBVIOUS
<1>10. PICK kept : kept = {t \in had : /\ channelMap[t] # None => ~channelMap[t].archived
                                       /\ ids # None /\ Parent[t] \notin ids}
    OBVIOUS
<1>11. PICK rec : rec = [guildMap[g] EXCEPT !.threads = kept \cup synced]
    OBVIOUS
<1>12. /\ channelMap' = [c \in Channel |->
                IF c \in synced THEN [NewChannel EXCEPT !.mine = c \in x.arg.mine]
                ELSE IF c \in had \ kept THEN None
                ELSE IF c \in x.arg.mine /\ channelMap[c] # None
                     THEN [channelMap[c] EXCEPT !.mine = TRUE]
                ELSE channelMap[c]]
       /\ ChangeGuild(loop, rec) /\ Tear(loop, g)
       /\ ReturnDetaching(loop, (had \ kept) \cup synced)
    BY <1>1, <1>3, <1>4, <1>7, <1>8, <1>9, <1>10, <1>11, Zenon DEF ThreadListSync
<1>13. synced = {t \in truth[g].threads : ids = None \/ Parent[t] \in ids}
    BY <1>2, <1>3, <1>4, <1>8, <1>9 DEF QInv, Due
<1>14. /\ \A t \in had : t \in Thread /\ t \in Channel /\ Home[t] = g
       /\ \A t \in truth[g].threads : t \in Thread /\ t \in Channel /\ Home[t] = g
    BY <1>5, <1>7, TruthLists DEF GuildRecord, IInv, Homes, ListOf, Channel
<1>15. guildMap'[g] = rec /\ \A h \in Guild : h # g => guildMap'[h] = guildMap[h]
    BY <1>1, <1>3, <1>4, <1>12, LiveChange
<1>16. /\ rec.members = guildMap[g].members /\ rec.count = guildMap[g].count
       /\ rec.items = guildMap[g].items /\ rec.channels = guildMap[g].channels
       /\ rec.threads = kept \cup synced /\ rec \in GuildRecord
    <2>1. kept \cup synced \in SUBSET Thread
        BY <1>10, <1>13, <1>14
    <2> QED  BY <1>5, <1>11, <2>1 DEF GuildRecord
<1>17. HasGuild(g)'
    BY <1>15, <1>16, NoneAssumption DEF HasGuild
<1>18. torn' = torn
    BY <1>1, <1>12 DEF Tear
<1>19. /\ todo' = [todo EXCEPT ![loop] = Tail(@)]
       /\ looked' \in [Proc -> {"no", "live", "gone"}] /\ looked'[loop] # "gone"
    BY <1>12, LoopReturn
<1>20. g = GuildOf(FirstCall)
    BY <1>2, <1>4, ConstantsAssumption DEF GuildOf, Channel
\* What becomes of the channels.
<1>21. ASSUME NEW c \in synced
       PROVE  channelMap'[c] # None /\ ~channelMap'[c].archived /\ channelMap'[c].messages = <<>>
    <2>1. c \in Channel
        BY <1>13, <1>14
    <2>2. channelMap'[c] = [NewChannel EXCEPT !.mine = c \in x.arg.mine]
        BY <1>12, <1>21, <2>1, Zenon
    <2>3. \A b : /\ [NewChannel EXCEPT !.mine = b].archived = FALSE
                 /\ [NewChannel EXCEPT !.mine = b].messages = <<>>
        BY DEF NewChannel
    <2>4. channelMap'[c].archived = FALSE /\ channelMap'[c].messages = <<>>
        BY <2>2, <2>3, Zenon
    <2>5. \A rc \in ChannelRecord : /\ [rc EXCEPT !.mine = TRUE] \in ChannelRecord
                                     /\ [rc EXCEPT !.mine = FALSE] \in ChannelRecord
        BY DEF ChannelRecord
    <2>6. /\ [NewChannel EXCEPT !.mine = TRUE] \in ChannelRecord
          /\ [NewChannel EXCEPT !.mine = FALSE] \in ChannelRecord
        BY <2>5, NewTypes
    <2>7. channelMap'[c] \in ChannelRecord
        <3>1. CASE c \in x.arg.mine
            <4>1. (c \in x.arg.mine) = TRUE
                BY <3>1, Zenon
            <4> QED  BY <2>2, <2>6, <4>1, Zenon
        <3>2. CASE c \notin x.arg.mine
            <4>1. (c \in x.arg.mine) = FALSE
                BY <3>2
            <4> QED  BY <2>2, <2>6, <4>1, Zenon
        <3> QED  BY <3>1, <3>2
    <2> QED  BY <2>4, <2>7, NoneAssumption
<1>22. ASSUME NEW c \in Channel, c \notin synced, c \notin had \/ c \in kept, channelMap[c] # None
       PROVE  /\ channelMap'[c] # None /\ channelMap'[c].archived = channelMap[c].archived
              /\ channelMap'[c].messages = channelMap[c].messages
    <2>1. channelMap[c] \in ChannelRecord
        BY <1>22, Entries DEF IInv, HasChannel
    <2>2. \/ channelMap'[c] = [channelMap[c] EXCEPT !.mine = TRUE]
          \/ channelMap'[c] = channelMap[c]
        BY <1>12, <1>22, Zenon
    <2>3. [channelMap[c] EXCEPT !.mine = TRUE] \in ChannelRecord
        BY <2>1 DEF ChannelRecord
    <2> QED  BY <1>22, <2>1, <2>2, <2>3, NoneAssumption DEF ChannelRecord
<1>23. \A c \in Channel : c \notin had /\ c \notin synced /\ c \notin x.arg.mine => channelMap'[c] = channelMap[c]
    BY <1>12, Zenon
<1>24. \A t \in x.arg.mine : Home[t] = g
    BY <1>2, <1>3, <1>4, <1>14 DEF QInv, Due
<1>25. \A h \in heard : h # g =>
           /\ guildMap'[h] = guildMap[h] /\ memberMap'[h] = memberMap[h]
           /\ \A c \in Text \cup Thread : Home[c] = h => channelMap'[c] = channelMap[c]
    <2>1. \A c \in Text \cup Thread : Home[c] # g => channelMap'[c] = channelMap[c]
        <3>1. \A c \in Text \cup Thread : Home[c] # g => c \notin had /\ c \notin synced /\ c \notin x.arg.mine
            BY <1>13, <1>14, <1>24
        <3> QED  BY <1>23, <3>1 DEF Channel
    <2>2. \A h \in heard : h \in Guild
        BY DEF IInv, GatewayOK
    <2> QED  BY <1>1, <1>15, <2>1, <2>2
<1>26. \A c \in Text : HasChannel(c)' => HasChannel(c) \/ c \in used
    <2>1. \A c \in Text : c \in Channel /\ c \notin had /\ c \notin synced
        BY <1>13, <1>14, ConstantsAssumption DEF Channel
    <2>2. \A c \in Text : c \notin x.arg.mine
        BY <1>2, <1>3, <1>4, <1>14, ConstantsAssumption DEF QInv, Due
    <2> QED  BY <1>23, <2>1, <2>2 DEF HasChannel
<1>33. \A t \in Thread : HasChannel(t)' => HasChannel(t) \/ Parent[t] \in used
    <2>1. ASSUME NEW t \in Thread, HasChannel(t)', ~HasChannel(t) PROVE t \in synced
        <3>1. t \in Channel /\ channelMap[t] = None /\ channelMap'[t] # None
            BY <2>1 DEF HasChannel, Channel
        <3> QED  BY <1>12, <3>1, Zenon
    <2>2. \A t \in Thread : t \in synced => Parent[t] \in used
        BY <1>13, <1>14 DEF QInv, Given
    <2> QED  BY <2>1, <2>2
<1>27. /\ \A n : CountThen(x, n) = n
       /\ \A S : MembersThen(x, S) = S /\ ItemsThen(x, S) = S /\ ChannelsThen(x, S) = S
       /\ \A t : ~Going(x, t) /\ ~Coming(x, t)
    BY <1>3 DEF CountThen, MembersThen, ItemsThen, ChannelsThen, Going, Coming
<1>28. \A c \in guildMap[g].channels \cup had : channelMap[c] # None
    <2>1. g \notin torn
        BY DEF QInv, Alone
    <2> QED  BY <1>5, <1>7, <2>1 DEF IInv, ChannelsAgree, HasChannel, ListOf
<1>29. ASSUME ThreadsRight(g, x) PROVE ThreadsRight(g, NoCall)'
    <2>1. ASSUME "threads" \in Track, NEW t \in kept
          PROVE  t \in truth[g].threads \/ Parent[t] \notin truth[g].channels
        <3>1. t \in had /\ channelMap[t] # None /\ ~channelMap[t].archived
            BY <1>10, <1>28, <2>1
        <3> QED  BY <1>7, <1>27, <1>29, <2>1, <3>1 DEF ThreadsRight
    <2>2. ASSUME "threads" \in Track, NEW t \in truth[g].threads
          PROVE  channelMap'[t] # None /\ ~channelMap'[t].archived
        <3>1. CASE t \in synced
            BY <1>21, <3>1
        <3>2. CASE t \notin synced
            <4>1. channelMap[t] # None /\ ~channelMap[t].archived
                BY <1>27, <1>29, <2>2 DEF ThreadsRight, HasChannel
            <4>2. ids # None /\ Parent[t] \notin ids
                BY <1>13, <2>2, <3>2
            <4>3. t \in had => t \in kept
                BY <1>10, <4>1, <4>2
            <4> QED  BY <1>14, <1>22, <2>2, <3>2, <4>1, <4>3
        <3> QED  BY <3>1, <3>2
    <2>3. \A t \in rec.threads : "threads" \in Track =>
              t \in truth[g].threads \/ Parent[t] \notin truth[g].channels
        BY <1>13, <1>16, <2>1
    <2> QED  BY <1>6, <1>15, <2>2, <2>3 DEF ThreadsRight, HasChannel
<1>30. ASSUME MessagesRight(g, x) PROVE MessagesRight(g, NoCall)'
    <2>1. ASSUME NEW c \in ListOf(guildMap[g])', NEW m \in Message, Contains(m, channelMap'[c].messages)
          PROVE  Contains(m, messages[c])
        <3>1. c \in guildMap[g].channels \cup kept \cup synced
            BY <1>15, <1>16, <2>1 DEF ListOf
        <3>2. CASE c \in synced
            <4>1. channelMap'[c].messages = <<>>
                BY <1>21, <3>2
            <4> QED  BY <2>1, <4>1 DEF Contains
        <3>3. CASE c \notin synced
            <4>1. c \in Channel /\ c \in ListOf(guildMap[g]) /\ (c \notin had \/ c \in kept)
                BY <1>5, <1>7, <1>10, <1>14, <3>1, <3>3, ConstantsAssumption DEF ListOf, GuildRecord, Channel
            <4>2. channelMap[c] # None
                BY <1>7, <1>28, <4>1 DEF ListOf
            <4>3. channelMap'[c].messages = channelMap[c].messages
                BY <1>22, <3>3, <4>1, <4>2
            <4> QED  BY <1>3, <1>30, <2>1, <4>1, <4>3 DEF MessagesRight
        <3> QED  BY <3>2, <3>3
    <2> QED  BY <1>6, <2>1 DEF MessagesRight
<1>31. /\ CountThen(x, guildMap[g].count) = guildMap'[g].count
       /\ guildMap'[g].items = ItemsThen(x, guildMap[g].items)
       /\ guildMap'[g].channels = ChannelsThen(x, guildMap[g].channels)
       /\ memberMap'[g] = MembersThen(x, memberMap[g]) /\ memberMap'[g] = memberMap[g]
       /\ guildMap'[g].members = guildMap[g].members
    BY <1>1, <1>15, <1>16, <1>27
<1>32. RightNow(g)'
    BY <1>1, <1>2, <1>3, <1>5, <1>17, <1>19, <1>20, <1>29, <1>30, <1>31, CallDone
<1> QED  BY <1>1, <1>3, <1>18, <1>19, <1>20, <1>25, <1>26, <1>32, <1>33, LoopStep

\* The loop makes the calls of the events, and the program none.
LEMMA MethodsQ ==
    ASSUME IInv, QInv, Stored, NEW p \in Proc, Methods(p)
    PROVE  QInv'
<1>1. UNCHANGED calls
    BY DEF Methods, Look, GuildAdd, GuildRemove, MemberCount, MemberAdd, MemberRemove, RoleAdd,
       RoleRemove, EmojiAdd, PresenceRemove, voiceStateUpdate, SetEmojis, SetItems, PresenceAdd,
       ChannelAdd, ChannelRemove, ThreadListSync, ThreadMembersUpdate, ThreadMemberUpdate,
       MessageAdd, MessageRemove, onReady
<1>2. CASE calls # 0
    BY <1>1, <1>2 DEF QInv
<1>3. CASE calls = 0
    <2>1. todo[p] # <<>>
        BY DEF Methods, Look, GuildAdd, GuildRemove, MemberCount, MemberAdd, MemberRemove, RoleAdd,
           RoleRemove, EmojiAdd, PresenceRemove, voiceStateUpdate, SetEmojis, SetItems, PresenceAdd,
           ChannelAdd, ChannelRemove, ThreadListSync, ThreadMembersUpdate, ThreadMemberUpdate,
           MessageAdd, MessageRemove, onReady, Found, NextCall
    <2>2. p = loop
        BY <1>3, <2>1 DEF Proc, QInv, Alone
    <2>3. Methods(loop)
        BY <2>2
    <2>4. ~EmojiAdd(loop) /\ ~PresenceRemove(loop)
        <3>1. FirstCall.op \notin {"EmojiAdd", "PresenceRemove"}
            BY <1>3 DEF QInv, Due
        <3>2. EmojiAdd(loop) => NextCall(loop, "EmojiAdd")
            BY DEF EmojiAdd, SetItems, Found
        <3>3. PresenceRemove(loop) => NextCall(loop, "PresenceRemove")
            BY DEF PresenceRemove, SetItems, Found
        <3>4. NextCall(loop, "EmojiAdd") => FirstCall.op = "EmojiAdd"
            BY FirstOf
        <3>5. NextCall(loop, "PresenceRemove") => FirstCall.op = "PresenceRemove"
            BY FirstOf
        <3> QED  BY <3>1, <3>2, <3>3, <3>4, <3>5
    <2> QED  BY <1>3, <2>3, <2>4, LookQ, GuildAddQ, GuildRemoveQ, MemberCountQ, MemberAddQ,
             MemberRemoveQ, ItemsQ, PresenceAddQ, ChannelAddQ, ChannelRemoveQ, ThreadListSyncQ,
             ThreadMembersUpdateQ, ThreadMemberUpdateQ, MessageQ, onReadyQ DEF Methods
<1> QED  BY <1>2, <1>3

-----------------------------------------------------------------------------
(* What happens at the gateway. *)

\* With nothing to do, all that the client hears of is right.
LEMMA RightBefore ==
    ASSUME calls = 0, QInv, todo[loop] = <<>>
    PROVE  /\ FirstCall = NoCall /\ LastCall = NoCall
           /\ \A h \in heard : Right(h, NoCall, NoCall)
<1>1. FirstCall = NoCall /\ LastCall = NoCall
    BY DEF FirstCall, LastCall
<1>2. ASSUME NEW h \in heard PROVE Right(h, NoCall, NoCall)
    <2>1. ~Fresh(h)
        BY DEF Fresh
    <2>2. RightNow(h)
        BY <1>2, <2>1 DEF QInv
    <2> QED  BY <1>1, <2>2 DEF RightNow, For
<1> QED  BY <1>1, <1>2

\* An event is about the guild g, or about none.
LEMMA EventQ ==
    ASSUME IInv, calls = 0, QInv, NEW hears, NEW ops, Tell(hears, ops),
           used \subseteq used', NEW g,
           \A h \in heard' : h # g =>
               /\ h \in heard /\ truth'[h] = truth[h] /\ told'[h] = told[h]
               /\ \A c \in Text \cup Thread : Home[c] = h => messages'[c] = messages[c],
           FirstCall' = NoCall \/ GuildOf(FirstCall') = g,
           LastCall' = NoCall \/ GuildOf(LastCall') = g,
           Due(FirstCall)', ThenDue',
           \A c \in Text : c \in truth'[Home[c]].channels =>
               c \in used' \/ c \in truth[Home[c]].channels,
           \A t \in Thread : t \in truth'[Home[t]].threads =>
               Parent[t] \in used' \/ t \in truth[Home[t]].threads,
           g \in heard' => Fresh(g)' \/ RightNow(g)'
    PROVE  QInv'
<1>1. /\ todo[loop] = <<>> /\ UNCHANGED <<guildMap, listed, memberMap, channelMap, private>>
      /\ UNCHANGED <<looked, calls, torn>>
      /\ todo' = todo \/ todo' = [todo EXCEPT ![loop] = ops]
    BY DEF Tell, cache
<1>2. Alone'
    BY <1>1, ConstantsAssumption DEF QInv, Alone, IInv, CallsOK, Proc
<1>3. Given'
    BY <1>1 DEF QInv, Given, HasChannel
<1>4. ASSUME NEW h \in heard', h # g PROVE RightNow(h)'
    <2>1. h \in heard /\ h \in Guild /\ Right(h, NoCall, NoCall)
        BY <1>1, <1>4, RightBefore DEF IInv, GatewayOK
    <2>2. For(h, FirstCall') = NoCall /\ For(h, LastCall') = NoCall
        BY <1>4, <2>1, Nothing DEF For
    <2>3. /\ truth'[h] = truth[h] /\ told'[h] = told[h]
          /\ guildMap'[h] = guildMap[h] /\ memberMap'[h] = memberMap[h]
          /\ \A c \in Text \cup Thread : Home[c] = h =>
                 channelMap'[c] = channelMap[c] /\ messages'[c] = messages[c]
        BY <1>1, <1>4
    <2>4. Right(h, NoCall, NoCall)'
        BY <2>1, <2>3, RightStays
    <2> QED  BY <2>2, <2>4 DEF RightNow, For
<1> QED  BY <1>2, <1>3, <1>4 DEF QInv

\* The calls of an event, none, one or two.
LEMMA OpsOf ==
    ASSUME IInv, NEW hears, NEW ops, Tell(hears, ops), NEW x, NEW y,
           ~hears => x = NoCall /\ y = NoCall,
           hears => \/ ops = <<>> /\ x = NoCall /\ y = NoCall
                    \/ ops = <<x>> /\ y = x
                    \/ ops = <<x, y>>
    PROVE  /\ FirstCall' = x /\ LastCall' = y
           /\ ~hears \/ ops # <<x, y>> => ThenDue'
           /\ hears /\ ops = <<x, y>> => Len(todo'[loop]) = 2
<1>1. loop \in Proc /\ todo \in [Proc -> Seq(Call)]
    BY DEF Proc, IInv, CallsOK
<1>2. CASE ~hears
    <2>1. todo'[loop] = <<>>
        BY <1>2 DEF Tell
    <2> QED  BY <1>2, <2>1 DEF FirstCall, LastCall, ThenDue
<1>3. CASE hears
    <2>1. todo'[loop] = ops
        BY <1>1, <1>3 DEF Tell
    <2>2. CASE ops = <<>> /\ x = NoCall /\ y = NoCall
        BY <2>1, <2>2 DEF FirstCall, LastCall, ThenDue
    <2>3. CASE ops = <<x>> /\ y = x
        <3>1. Len(ops) = 1 /\ Head(ops) = x /\ ops[Len(ops)] = x /\ ops # <<>>
            BY <2>3
        <3> QED  BY <2>1, <2>3, <3>1 DEF FirstCall, LastCall, ThenDue
    <2>4. CASE ops = <<x, y>>
        <3>1. Len(ops) = 2 /\ Head(ops) = x /\ ops[Len(ops)] = y /\ ops # <<>>
            BY <2>4
        <3> QED  BY <1>3, <2>1, <2>4, <3>1 DEF FirstCall, LastCall
    <2> QED  BY <1>3, <2>2, <2>3, <2>4
<1> QED  BY <1>2, <1>3

LEMMA OneOp ==
    ASSUME NEW x, todo'[loop] = <<x>>
    PROVE  FirstCall' = x /\ LastCall' = x /\ ThenDue' /\ Len(todo'[loop]) = 1
<1>1. PICK s : s = <<x>>
    OBVIOUS
<1>2. Len(s) = 1 /\ Head(s) = x /\ s[Len(s)] = x /\ s # <<>>
    BY <1>1
<1>3. todo'[loop] = s
    BY <1>1
<1> QED  BY <1>2, <1>3 DEF FirstCall, LastCall, ThenDue

LEMMA TellOne ==
    ASSUME IInv, NEW hears, NEW ops, Tell(hears, ops)
    PROVE  hears => todo'[loop] = ops
BY DEF Tell, IInv, CallsOK, Proc

LEMMA NoOp ==
    ASSUME IInv, NEW hears, NEW ops, Tell(hears, ops), ~hears \/ ops = <<>>
    PROVE  FirstCall' = NoCall /\ LastCall' = NoCall /\ ThenDue'
<1>1. loop \in Proc /\ todo \in [Proc -> Seq(Call)]
    BY DEF Proc, IInv, CallsOK
<1>2. todo'[loop] = <<>>
    BY <1>1 DEF Tell
<1> QED  BY <1>2 DEF FirstCall, LastCall, ThenDue

\* No channel comes back of which threads are still listed.
StaysGone(g, rec) ==
    HasGuild(g) => \A t \in guildMap[g].threads :
        Parent[t] \notin truth[g].channels => Parent[t] \notin rec.channels

LEMMA NoneComes ==
    ASSUME NEW g, NEW rec, rec.channels \subseteq truth[g].channels
    PROVE  StaysGone(g, rec)
BY DEF StaysGone

\* With the calls x and y, what the cache has of a guild becomes the new truth,
\* of whose members those known were named.
Fits(g, rec, known, x, y) ==
    /\ CountThen(x, Cardinality(truth[g].members) + 1) = Cardinality(rec.members) + 1
    /\ "members" \in Track => \A S : told[g] \subseteq S /\ S \subseteq truth[g].members =>
           known \subseteq MembersThen(y, S) /\ MembersThen(y, S) \subseteq rec.members
    /\ "channels" \in Track =>
          /\ rec.channels = ChannelsThen(x, truth[g].channels)
          /\ \A c \in Text : x.op = "ChannelAdd" /\ x.at = c /\ HasChannel(c)
                             => c \in truth[g].channels
    /\ "threads" \in Track =>
          /\ \A t \in truth[g].threads :
                t \in rec.threads \/ Going(x, t) \/ Parent[t] \notin rec.channels
          /\ StaysGone(g, rec)
          /\ \A t \in rec.threads : t \in truth[g].threads \/ Coming(x, t)
    /\ "items" \in Track => rec.items = ItemsThen(x, truth[g].items)

\* An event of a guild after which the client knows of the members in known.
EventAbout(g, rec, ops, known) ==
    /\ GuildEvent(g, rec, ops) /\ used \subseteq used'
    /\ \A h \in Guild : told'[h] = IF h = g THEN known ELSE told[h]

\* GuildChange and MemberEvent are such.
LEMMA ChangeAbout ==
    ASSUME NEW g \in Guild, NEW rec, NEW ops, GuildChange(g, rec, ops)
    PROVE  EventAbout(g, rec, ops, told[g]) /\ used' = used
BY DEF GuildChange, EventAbout

LEMMA MemberAbout ==
    ASSUME Known, NEW g \in Guild, NEW rec, NEW ops, NEW S, MemberEvent(g, S, rec, ops)
    PROVE  EventAbout(g, rec, ops, S) /\ used' = used
BY DEF MemberEvent, EventAbout, Known

LEMMA FitsRight ==
    ASSUME IInv, NEW g \in Guild, NEW rec, NEW known, NEW x, NEW y, Right(g, NoCall, NoCall),
           Fits(g, rec, known, x, y), truth'[g] = rec, told'[g] = known,
           UNCHANGED <<guildMap, memberMap, channelMap, messages>>
    PROVE  Right(g, x, y)'
<1>1. HasGuild(g) /\ HasGuild(g)' /\ guildMap'[g] = guildMap[g] /\ memberMap'[g] = memberMap[g]
    BY DEF Right, HasGuild
<1>2. CountRight(g, x)'
    <2>1. guildMap[g].count = Cardinality(truth[g].members) + 1
        BY Nothing DEF Right, CountRight
    <2> QED  BY <1>1, <2>1 DEF CountRight, Fits
<1>3. MembersRight(g, y)'
    <2>1. "members" \in Track =>
              /\ guildMap[g].members = memberMap[g]
              /\ told[g] \subseteq memberMap[g] /\ memberMap[g] \subseteq truth[g].members
        BY Nothing DEF Right, MembersRight
    <2> QED  BY <1>1, <2>1 DEF MembersRight, Fits
<1>4. ChannelsRight(g, x)'
    <2>1. "channels" \in Track => truth[g].channels = guildMap[g].channels
        BY Nothing DEF Right, ChannelsRight
    <2> QED  BY <1>1, <2>1 DEF ChannelsRight, Fits, HasChannel
<1>5. ThreadsRight(g, x)'
    BY <1>1, Nothing DEF Right, ThreadsRight, Fits, StaysGone, HasChannel
<1>6. ItemsRight(g, x)'
    <2>1. "items" \in Track => truth[g].items = guildMap[g].items
        BY Nothing DEF Right, ItemsRight
    <2> QED  BY <1>1, <2>1 DEF ItemsRight, Fits
<1>7. MessagesRight(g, x)'
    <2>1. ListOf(guildMap[g])' = ListOf(guildMap[g])
        BY <1>1 DEF ListOf
    <2> QED  BY <2>1, Nothing DEF Right, MessagesRight
<1> QED  BY <1>1, <1>2, <1>3, <1>4, <1>5, <1>6, <1>7 DEF Right

\* An event of a guild and its calls.
LEMMA GuildEventQ ==
    ASSUME IInv, calls = 0, QInv, NEW g \in Guild, NEW rec \in GuildRecord, NEW ops,
           NEW known, EventAbout(g, rec, ops, known),
           rec.channels \subseteq truth[g].channels \cup used',
           \A t \in rec.threads : t \in truth[g].threads \/ Parent[t] \in used', NEW x, NEW y,
           \/ ops = <<>> /\ x = NoCall /\ y = NoCall
           \/ ops = <<x>> /\ y = x
           \/ /\ ops = <<x, y>> /\ x.op \in {"MemberCount", "PresenceAdd"}
              /\ y.op \in MemberOps /\ x.at = g /\ y.at = g,
           x = NoCall \/ GuildOf(x) = g, y = NoCall \/ GuildOf(y) = g,
           g \in heard => Due(x)', Fits(g, rec, known, x, y)
    PROVE  QInv'
<1>1. /\ Tell(g \in heard, ops) /\ truth' = [truth EXCEPT ![g] = rec]
      /\ UNCHANGED <<heard, messages>> /\ used \subseteq used'
      /\ told'[g] = known /\ \A h \in Guild : h # g => told'[h] = told[h]
    BY DEF EventAbout, GuildEvent
<1>2. PICK hears : hears = (g \in heard)
    OBVIOUS
<1>3. Tell(hears, ops)
    BY <1>1, <1>2
<1>4. todo[loop] = <<>> /\ UNCHANGED <<guildMap, memberMap, channelMap>>
    BY <1>1 DEF Tell, cache
<1>5. truth'[g] = rec /\ \A h \in Guild : h # g => truth'[h] = truth[h]
    BY <1>1 DEF IInv, GatewayOK
<1>6. \A h \in heard' : h # g =>
          /\ h \in heard /\ truth'[h] = truth[h] /\ told'[h] = told[h]
          /\ \A c \in Text \cup Thread : Home[c] = h => messages'[c] = messages[c]
    BY <1>1, <1>5 DEF IInv, GatewayOK
<1>7. /\ \A c \in Text : c \in truth'[Home[c]].channels =>
             c \in used' \/ c \in truth[Home[c]].channels
      /\ \A t \in Thread : t \in truth'[Home[t]].threads =>
             Parent[t] \in used' \/ t \in truth[Home[t]].threads
    BY <1>5, ConstantsAssumption
<1>8. CASE g \notin heard
    <2>1. ~hears
        BY <1>2, <1>8
    <2>2. FirstCall' = NoCall /\ LastCall' = NoCall /\ ThenDue'
        BY <1>3, <2>1, OpsOf
    <2>3. Due(FirstCall)'
        BY <2>2, Nothing DEF Due, GuildCallOps
    <2>4. g \notin heard'
        BY <1>1, <1>8
    <2> QED  BY <1>1, <1>3, <1>6, <1>7, <2>2, <2>3, <2>4, EventQ
<1>9. CASE g \in heard
    <2>1. hears
        BY <1>2, <1>9
    <2>2. /\ FirstCall' = x /\ LastCall' = y
          /\ ops # <<x, y>> => ThenDue'
          /\ ops = <<x, y>> => Len(todo'[loop]) = 2
        BY <1>3, <2>1, OpsOf
    <2>3. ThenDue'
        BY <1>1, <1>9, <2>2 DEF ThenDue
    <2>4. Due(FirstCall)'
        BY <1>9, <2>2 DEF Due
    <2>5. Right(g, NoCall, NoCall)
        BY <1>4, <1>9, RightBefore
    <2>6. Right(g, x, y)'
        BY <1>1, <1>4, <1>5, <2>5, FitsRight
    <2>7. For(g, x) = x /\ For(g, y) = y
        BY DEF For
    <2>8. RightNow(g)'
        BY <2>2, <2>6, <2>7 DEF RightNow, For
    <2> QED  BY <1>1, <1>3, <1>6, <1>7, <2>2, <2>3, <2>4, <2>8, EventQ
<1> QED  BY <1>8, <1>9

\* The number of members of a guild, with one more or one less.
LEMMA Counted ==
    ASSUME NEW S \in SUBSET User
    PROVE  /\ Cardinality(S) \in Nat
           /\ \A u \in User : u \notin S => Cardinality(S \cup {u}) = Cardinality(S) + 1
           /\ \A u \in S : Cardinality(S \ {u}) = Cardinality(S) - 1
<1>1. IsFiniteSet(S)
    BY FS_Subset, ConstantsAssumption
<1> QED  BY <1>1, FS_CardinalityType, FS_AddElement, FS_RemoveElement

\* A call about a guild, and when it is due.
LEMMA GuildOp ==
    ASSUME NEW g \in Guild, NEW op, NEW arg
    PROVE  /\ Op(op, g, arg).op = op /\ Op(op, g, arg).at = g /\ Op(op, g, arg).arg = arg
           /\ GuildOf(Op(op, g, arg)) = g
BY ConstantsAssumption DEF Op, GuildOf, Channel

LEMMA DueOp ==
    ASSUME NEW x, x.op \in GuildCallOps \ {"GuildAdd", "ThreadListSync"}, x.at \in heard'
    PROVE  Due(x)'
BY DEF Due, GuildCallOps

\* One or two calls, put together.
LEMMA Joined12 ==
    ASSUME NEW a, NEW b
    PROVE  /\ <<a>> \o <<b>> = <<a, b>> /\ <<a>> \o <<>> = <<a>>
           /\ <<>> \o <<b>> = <<b>> /\ <<>> \o <<>> = <<>>
<1>1. PICK S : a \in S /\ b \in S
    <2>1. a \in {a, b} /\ b \in {a, b}
        OBVIOUS
    <2> QED  BY <2>1, Zenon
<1>2. PICK s \in Seq(S) : s = <<a>>
    <2>1. <<a>> \in Seq(S)
        BY <1>1
    <2> QED  BY <2>1, Zenon
<1>3. PICK t \in Seq(S) : t = <<b>>
    <2>1. <<b>> \in Seq(S)
        BY <1>1
    <2> QED  BY <2>1, Zenon
<1>4. PICK r \in Seq(S) : r = <<a, b>>
    <2>1. <<a, b>> \in Seq(S)
        BY <1>1
    <2> QED  BY <2>1, Zenon
<1>5. s \o t = r
    <2>1. /\ Len(s) = 1 /\ s[1] = a /\ Len(t) = 1 /\ t[1] = b
          /\ Len(r) = 2 /\ r[1] = a /\ r[2] = b
        BY <1>2, <1>3, <1>4
    <2>2. /\ s \o t \in Seq(S) /\ Len(s \o t) = Len(s) + Len(t)
          /\ \A i \in 1 .. Len(s) + Len(t) : (s \o t)[i] = IF i <= Len(s) THEN s[i] ELSE t[i - Len(s)]
        BY ConcatProperties
    <2>3. PICK q \in Seq(S) : q = s \o t
        BY <2>2
    <2>4. Len(q) = 2 /\ \A i \in 1 .. 2 : q[i] = IF i <= 1 THEN s[i] ELSE t[i - 1]
        BY <2>1, <2>2, <2>3
    <2>5. q[1] = a /\ q[2] = b
        BY <2>1, <2>4
    <2>6. Len(q) = Len(r) /\ \A i \in 1 .. Len(q) : q[i] = r[i]
        BY <2>1, <2>4, <2>5
    <2>7. q = r
        BY <2>6, SeqEqual
    <2> QED  BY <2>3, <2>7
<1>6. s \o <<>> = s /\ <<>> \o t = t /\ <<>> \o <<>> = <<>>
    <2>1. <<>> \in Seq(S)
        OBVIOUS
    <2> QED  BY <2>1, ConcatEmptySeq
<1> QED  BY <1>2, <1>3, <1>4, <1>5, <1>6

\* Tracks gives the calls or none, before or after those of another kind.
LEMMA Tracked12 ==
    ASSUME NEW a, NEW b, NEW k
    PROVE  /\ Tracks(k, <<a>>) = IF k \in Track THEN <<a>> ELSE <<>>
           /\ <<a>> \o Tracks(k, <<b>>) = IF k \in Track THEN <<a, b>> ELSE <<a>>
           /\ <<>> \o Tracks(k, <<b>>) = IF k \in Track THEN <<b>> ELSE <<>>
<1>1. Tracks(k, <<a>>) = IF k \in Track THEN <<a>> ELSE <<>>
    BY DEF Tracks
<1>2. Tracks(k, <<b>>) = IF k \in Track THEN <<b>> ELSE <<>>
    BY DEF Tracks
<1> QED  BY <1>1, <1>2, Joined12

\* A member comes or goes: the count, and the lists if they are tracked.
LEMMA MemberComesQ ==
    ASSUME IInv, Known, calls = 0, QInv, NEW g \in Guild, NEW u \in User, GuildMemberAdd(g, u)
    PROVE  QInv'
<1>1. PICK rec : rec = [truth[g] EXCEPT !.members = @ \cup {u}]
    OBVIOUS
<1>2. PICK a : a = Op("MemberCount", g, 1)
    OBVIOUS
<1>3. PICK b : b = Op("MemberAdd", g, u)
    OBVIOUS
<1>4. PICK ops : ops = <<a>> \o Tracks("members", <<b>>)
    OBVIOUS
<1>5. EventAbout(g, rec, ops, told[g] \cup {u}) /\ heard' = heard /\ u \notin truth[g].members
    <2>1. MemberEvent(g, told[g] \cup {u}, rec, ops) /\ u \notin truth[g].members
        BY <1>1, <1>2, <1>3, <1>4 DEF GuildMemberAdd
    <2> QED  BY <2>1, MemberAbout DEF MemberEvent, GuildEvent
<1>6. truth[g] \in GuildRecord /\ truth[g].members \in SUBSET User
    BY DEF IInv, GatewayOK, GuildRecord
<1>7. /\ rec \in GuildRecord /\ rec.members = truth[g].members \cup {u}
      /\ rec.channels = truth[g].channels /\ rec.threads = truth[g].threads
      /\ rec.items = truth[g].items
    BY <1>1, <1>6 DEF GuildRecord
<1>8. /\ Cardinality(rec.members) = Cardinality(truth[g].members) + 1
      /\ Cardinality(truth[g].members) \in Nat
    BY <1>5, <1>6, <1>7, Counted
<1>9. /\ a.op = "MemberCount" /\ a.at = g /\ a.arg = 1 /\ GuildOf(a) = g
      /\ b.op = "MemberAdd" /\ b.at = g /\ b.arg = u /\ GuildOf(b) = g
    BY <1>2, <1>3, GuildOp
<1>10. g \in heard => Due(a)'
    BY <1>5, <1>9, DueOp DEF GuildCallOps
<1>11. /\ CountThen(a, Cardinality(truth[g].members) + 1) = Cardinality(rec.members) + 1
       /\ \A S : ChannelsThen(a, S) = S /\ ItemsThen(a, S) = S
       /\ \A S : MembersThen(b, S) = S \cup {u}
       /\ a.op # "ChannelAdd"
    BY <1>8, <1>9 DEF CountThen, ChannelsThen, ItemsThen, MembersThen
<1>12. CASE "members" \in Track
    <2>1. Fits(g, rec, told[g] \cup {u}, a, b)
        BY <1>7, <1>11, NoneComes DEF Fits
    <2>2. ops = <<a, b>>
        BY <1>4, <1>12, Tracked12
    <2> QED  BY <1>5, <1>7, <1>9, <1>10, <2>1, <2>2, GuildEventQ DEF MemberOps
<1>13. CASE "members" \notin Track
    <2>1. Fits(g, rec, told[g] \cup {u}, a, a)
        BY <1>7, <1>11, <1>13, NoneComes DEF Fits
    <2>2. ops = <<a>>
        BY <1>4, <1>13, Tracked12
    <2> QED  BY <1>5, <1>7, <1>9, <1>10, <2>1, <2>2, GuildEventQ
<1> QED  BY <1>12, <1>13

LEMMA MemberGoesQ ==
    ASSUME IInv, Known, calls = 0, QInv, NEW g \in Guild, NEW u \in User, GuildMemberRemove(g, u)
    PROVE  QInv'
<1>1. PICK rec : rec = [truth[g] EXCEPT !.members = @ \ {u}]
    OBVIOUS
<1>2. PICK a : a = Op("MemberCount", g, -1)
    OBVIOUS
<1>3. PICK b : b = Op("MemberRemove", g, u)
    OBVIOUS
<1>4. PICK ops : ops = <<a>> \o Tracks("members", <<b>>)
    OBVIOUS
<1>5. EventAbout(g, rec, ops, told[g] \ {u}) /\ heard' = heard /\ u \in truth[g].members
    <2>1. MemberEvent(g, told[g] \ {u}, rec, ops) /\ u \in truth[g].members
        BY <1>1, <1>2, <1>3, <1>4 DEF GuildMemberRemove
    <2> QED  BY <2>1, MemberAbout DEF MemberEvent, GuildEvent
<1>6. truth[g] \in GuildRecord /\ truth[g].members \in SUBSET User
    BY DEF IInv, GatewayOK, GuildRecord
<1>7. /\ rec \in GuildRecord /\ rec.members = truth[g].members \ {u}
      /\ rec.channels = truth[g].channels /\ rec.threads = truth[g].threads
      /\ rec.items = truth[g].items
    BY <1>1, <1>6 DEF GuildRecord
<1>8. /\ Cardinality(rec.members) = Cardinality(truth[g].members) - 1
      /\ Cardinality(truth[g].members) \in Nat
    BY <1>5, <1>6, <1>7, Counted
<1>9. /\ a.op = "MemberCount" /\ a.at = g /\ a.arg = -1 /\ GuildOf(a) = g
      /\ b.op = "MemberRemove" /\ b.at = g /\ b.arg = u /\ GuildOf(b) = g
    BY <1>2, <1>3, GuildOp
<1>10. g \in heard => Due(a)'
    BY <1>5, <1>9, DueOp DEF GuildCallOps
<1>11. /\ CountThen(a, Cardinality(truth[g].members) + 1) = Cardinality(rec.members) + 1
       /\ \A S : ChannelsThen(a, S) = S /\ ItemsThen(a, S) = S
       /\ \A S : MembersThen(b, S) = S \ {u}
       /\ a.op # "ChannelAdd"
    BY <1>8, <1>9 DEF CountThen, ChannelsThen, ItemsThen, MembersThen
<1>12. CASE "members" \in Track
    <2>1. Fits(g, rec, told[g] \ {u}, a, b)
        BY <1>7, <1>11, NoneComes DEF Fits
    <2>2. ops = <<a, b>>
        BY <1>4, <1>12, Tracked12
    <2> QED  BY <1>5, <1>7, <1>9, <1>10, <2>1, <2>2, GuildEventQ DEF MemberOps
<1>13. CASE "members" \notin Track
    <2>1. Fits(g, rec, told[g] \ {u}, a, a)
        BY <1>7, <1>11, <1>13, NoneComes DEF Fits
    <2>2. ops = <<a>>
        BY <1>4, <1>13, Tracked12
    <2> QED  BY <1>5, <1>7, <1>9, <1>10, <2>1, <2>2, GuildEventQ
<1> QED  BY <1>12, <1>13

\* The calls of an event that leaves the count, the channels and the threads
\* alone: none, one, or those of a presence.
FewCalls(g, ops, x, y) ==
    /\ \/ ops = <<>> /\ x = NoCall /\ y = NoCall
       \/ ops = <<x>> /\ y = x
       \/ ops = <<x, y>> /\ x.op = "PresenceAdd" /\ y.op = "MemberAdd"
    /\ \/ x = NoCall
       \/ /\ x.op \in {"MemberAdd", "RoleAdd", "RoleRemove", "PresenceAdd",
                      "voiceStateUpdate", "SetEmojis"}
          /\ x.at = g /\ GuildOf(x) = g
    /\ y = NoCall \/ (y.at = g /\ GuildOf(y) = g)
    /\ y.op = "MemberAdd" => y.arg \in truth[g].members
    /\ y.op # "MemberRemove"

LEMMA SmallEventQ ==
    ASSUME IInv, calls = 0, QInv, NEW g \in Guild, NEW rec, NEW ops,
           NEW known, EventAbout(g, rec, ops, known),
           NEW S \in SUBSET Item, rec = [truth[g] EXCEPT !.items = S],
           NEW x, NEW y, FewCalls(g, ops, x, y),
           "members" \in Track => \/ known \subseteq told[g]
                                  \/ y.op = "MemberAdd" /\ known \subseteq told[g] \cup {y.arg},
           "items" \in Track => S = ItemsThen(x, truth[g].items)
    PROVE  QInv'
<1>1. used \subseteq used' /\ heard' = heard
    BY DEF EventAbout, GuildEvent
<1>2. truth[g] \in GuildRecord
    BY DEF IInv, GatewayOK
<1>3. /\ rec \in GuildRecord /\ rec.members = truth[g].members
      /\ rec.channels = truth[g].channels /\ rec.threads = truth[g].threads
      /\ rec.items = S
    BY <1>2 DEF GuildRecord
<1>4. g \in heard => Due(x)'
    <2>1. CASE x = NoCall
        BY <2>1, Nothing DEF Due, GuildCallOps
    <2>2. CASE x # NoCall
        BY <1>1, <2>2, DueOp DEF GuildCallOps, FewCalls
    <2> QED  BY <2>1, <2>2
<1>5. /\ \A n : CountThen(x, n) = n
      /\ \A L : ChannelsThen(x, L) = L /\ x.op # "ChannelAdd"
    <2>1. CASE x = NoCall
        BY <2>1, Nothing
    <2>2. CASE x # NoCall
        BY <2>2 DEF CountThen, ChannelsThen, FewCalls
    <2> QED  BY <2>1, <2>2
<1>6. "members" \in Track => \A L : told[g] \subseteq L /\ L \subseteq truth[g].members =>
          known \subseteq MembersThen(y, L) /\ MembersThen(y, L) \subseteq truth[g].members
    BY DEF MembersThen, FewCalls
<1>7. Fits(g, rec, known, x, y)
    BY <1>3, <1>5, <1>6, NoneComes DEF Fits
<1>8. ops = <<x, y>> => x # NoCall /\ y # NoCall
    <2>1. CASE ops = <<x, y>> /\ x.op = "PresenceAdd" /\ y.op = "MemberAdd"
        BY <2>1, Nothing
    <2>2. CASE ops = <<>>
        BY <2>2
    <2>3. CASE ops = <<x>>
        BY <2>3
    <2> QED  BY <2>1, <2>2, <2>3 DEF FewCalls
<1>9. \/ ops = <<>> /\ x = NoCall /\ y = NoCall
      \/ ops = <<x>> /\ y = x
      \/ /\ ops = <<x, y>> /\ x.op \in {"MemberCount", "PresenceAdd"}
         /\ y.op \in MemberOps /\ x.at = g /\ y.at = g
    BY <1>8 DEF MemberOps, FewCalls
<1>10. rec.channels \subseteq truth[g].channels \cup used'
    BY <1>3
<1>11. (x = NoCall \/ GuildOf(x) = g) /\ (y = NoCall \/ GuildOf(y) = g)
    BY DEF FewCalls
<1> QED  BY <1>1, <1>3, <1>4, <1>7, <1>9, <1>10, <1>11, GuildEventQ

\* An event whose list is not tracked.
LEMMA QuietEventQ ==
    ASSUME IInv, calls = 0, QInv, NEW g \in Guild, NEW rec, NEW ops, ops = <<>>,
           NEW known, EventAbout(g, rec, ops, known),
           "members" \in Track => known \subseteq told[g], NEW S \in SUBSET Item, rec = [truth[g] EXCEPT !.items = S],
           "items" \in Track => S = truth[g].items
    PROVE  QInv'
<1>1. PICK x : x = NoCall
    OBVIOUS
<1>2. /\ x.op = "none" /\ x.op # "MemberAdd" /\ x.op # "MemberRemove"
      /\ ItemsThen(x, truth[g].items) = truth[g].items
    BY <1>1, Nothing
<1>3. FewCalls(g, ops, x, x)
    BY <1>1, <1>2 DEF FewCalls
<1>4. "items" \in Track => S = ItemsThen(x, truth[g].items)
    BY <1>2
<1> QED  BY <1>3, <1>4, SmallEventQ

\* An event with one call.
LEMMA OneCallQ ==
    ASSUME IInv, calls = 0, QInv, NEW g \in Guild, NEW rec, NEW ops, NEW x, ops = <<x>>,
           NEW known, EventAbout(g, rec, ops, known),
           "members" \in Track => \/ known \subseteq told[g]
                                  \/ x.op = "MemberAdd" /\ known \subseteq told[g] \cup {x.arg},
           NEW S \in SUBSET Item, rec = [truth[g] EXCEPT !.items = S],
           x.op \in {"MemberAdd", "RoleAdd", "RoleRemove", "PresenceAdd", "voiceStateUpdate",
                    "SetEmojis"},
           x.at = g, GuildOf(x) = g, x.op = "MemberAdd" => x.arg \in truth[g].members,
           "items" \in Track => S = ItemsThen(x, truth[g].items)
    PROVE  QInv'
<1>1. FewCalls(g, ops, x, x)
    BY DEF FewCalls
<1> QED  BY <1>1, SmallEventQ

\* A member changes, or its presence.
LEMMA MemberNewsQ ==
    ASSUME IInv, Known, calls = 0, QInv, NEW g \in Guild, NEW u \in User,
           \/ GuildMemberUpdate(g, u)
           \/ \E i \in Item, offline \in BOOLEAN : PresenceUpdate(g, u, i, offline)
    PROVE  QInv'
<1>1. PICK b : b = Op("MemberAdd", g, u)
    OBVIOUS
<1>2. b.op = "MemberAdd" /\ b.at = g /\ b.arg = u /\ GuildOf(b) = g
    BY <1>1, GuildOp
<1>3. truth[g] \in GuildRecord /\ u \in truth[g].members
    BY DEF IInv, GatewayOK, GuildMemberUpdate, PresenceUpdate
<1>4. NoCall.op = "none" /\ \A S : ItemsThen(NoCall, S) = S /\ ItemsThen(b, S) = S
    BY <1>2, Nothing DEF ItemsThen
<1>5. CASE GuildMemberUpdate(g, u)
    <2>1. PICK rec : rec = truth[g]
        OBVIOUS
    <2>2. PICK S \in SUBSET Item : S = truth[g].items
        BY <1>3 DEF GuildRecord
    <2>3. rec = [truth[g] EXCEPT !.items = S]
        BY <1>3, <2>1, <2>2 DEF GuildRecord
    <2>4. PICK ops : ops = Tracks("members", <<b>>)
        OBVIOUS
    <2>5. EventAbout(g, rec, ops, told[g] \cup {u})
        <3>1. MemberEvent(g, told[g] \cup {u}, rec, ops)
            BY <1>1, <1>5, <2>1, <2>4 DEF GuildMemberUpdate
        <3> QED  BY <3>1, MemberAbout
    <2>6. ops = <<b>> \/ (ops = <<>> /\ "members" \notin Track)
        BY <2>4, Tracked12
    <2>7. CASE ops = <<b>>
        <3>1. "items" \in Track => S = ItemsThen(b, truth[g].items)
            BY <1>4, <2>2
        <3> QED  BY <1>2, <1>3, <2>3, <2>5, <2>7, <3>1, OneCallQ
    <2>8. CASE ops = <<>> /\ "members" \notin Track
        BY <2>2, <2>3, <2>5, <2>8, QuietEventQ
    <2> QED  BY <2>6, <2>7, <2>8
<1>6. ASSUME NEW i \in Item, NEW offline \in BOOLEAN, PresenceUpdate(g, u, i, offline) PROVE QInv'
    <2>1. PICK a : a = Op("PresenceAdd", g, i)
        OBVIOUS
    <2>2. a.op = "PresenceAdd" /\ a.at = g /\ a.arg = i /\ GuildOf(a) = g
        BY <2>1, GuildOp
    <2>3. PICK S \in SUBSET Item : S = truth[g].items \cup {i}
        BY <1>3 DEF GuildRecord
    <2>4. PICK rec : rec = [truth[g] EXCEPT !.items = S]
        OBVIOUS
    <2>5. PICK then : then = IF offline THEN <<>> ELSE Tracks("members", <<b>>)
        OBVIOUS
    <2>6. PICK known : known = IF offline THEN told[g] ELSE told[g] \cup {u}
        OBVIOUS
    <2>7. PICK ops : ops = Tracks("items", <<a>>) \o then
        OBVIOUS
    <2>8. EventAbout(g, rec, ops, known)
        <3>1. MemberEvent(g, known, rec, ops)
            BY <1>1, <1>6, <2>1, <2>3, <2>4, <2>5, <2>6, <2>7 DEF PresenceUpdate
        <3> QED  BY <3>1, MemberAbout
    <2>9. ItemsThen(a, truth[g].items) = S
        BY <2>2, <2>3 DEF ItemsThen
    <2>10. \/ then = <<b>>
           \/ then = <<>> /\ ("members" \in Track => known \subseteq told[g])
        BY <2>5, <2>6, Tracked12
    <2>11. \/ Tracks("items", <<a>>) = <<a>>
           \/ Tracks("items", <<a>>) = <<>> /\ "items" \notin Track
        BY Tracked12
    <2>12. /\ <<a>> \o <<b>> = <<a, b>> /\ <<a>> \o <<>> = <<a>>
           /\ <<>> \o <<b>> = <<b>> /\ <<>> \o <<>> = <<>>
        BY Joined12
    <2>13. "members" \in Track => known \subseteq told[g] \cup {b.arg}
        BY <1>2, <2>6
    <2>14. CASE Tracks("items", <<a>>) = <<a>> /\ then = <<b>>
        <3>1. ops = <<a, b>>
            BY <2>7, <2>12, <2>14
        <3>2. FewCalls(g, ops, a, b)
            BY <1>2, <1>3, <2>2, <3>1 DEF FewCalls
        <3> QED  BY <1>2, <2>4, <2>8, <2>9, <2>13, <3>2, SmallEventQ
    <2>15. CASE Tracks("items", <<a>>) = <<a>> /\ then = <<>> /\ ("members" \in Track => known \subseteq told[g])
        <3>1. ops = <<a>>
            BY <2>7, <2>12, <2>15
        <3>2. a.op # "MemberAdd" /\ a.op # "MemberRemove"
            BY <2>2
        <3> QED  BY <2>2, <2>4, <2>8, <2>9, <2>15, <3>1, <3>2, OneCallQ
    <2>16. CASE "items" \notin Track /\ Tracks("items", <<a>>) = <<>> /\ then = <<b>>
        <3>1. ops = <<b>>
            BY <2>7, <2>12, <2>16
        <3>2. b.op # "MemberRemove" /\ b.arg \in truth[g].members
            BY <1>2, <1>3
        <3> QED  BY <1>2, <2>4, <2>8, <2>13, <2>16, <3>1, <3>2, OneCallQ
    <2>17. CASE /\ "items" \notin Track /\ Tracks("items", <<a>>) = <<>> /\ then = <<>>
                /\ ("members" \in Track => known \subseteq told[g])
        <3>1. ops = <<>>
            BY <2>7, <2>12, <2>17
        <3> QED  BY <2>4, <2>8, <2>17, <3>1, QuietEventQ
    <2> QED  BY <2>10, <2>11, <2>14, <2>15, <2>16, <2>17
<1> QED  BY <1>5, <1>6

\* An event of one of the lists without a map.
LEMMA ItemEventQ ==
    ASSUME IInv, calls = 0, QInv, NEW g \in Guild, NEW S \in SUBSET Item, NEW x,
           GuildChange(g, [truth[g] EXCEPT !.items = S], Tracks("items", <<x>>)),
           x.op \in {"RoleAdd", "RoleRemove", "voiceStateUpdate", "SetEmojis"},
           x.at = g, GuildOf(x) = g, S = ItemsThen(x, truth[g].items)
    PROVE  QInv'
<1>1. PICK rec : rec = [truth[g] EXCEPT !.items = S]
    OBVIOUS
<1>2. PICK ops : ops = Tracks("items", <<x>>)
    OBVIOUS
<1>3. EventAbout(g, rec, ops, told[g])
    BY <1>1, <1>2, ChangeAbout
<1>4. CASE "items" \in Track
    <2>1. ops = <<x>>
        BY <1>2, <1>4, Tracked12
    <2>2. /\ x.op \in {"MemberAdd", "RoleAdd", "RoleRemove", "PresenceAdd", "voiceStateUpdate",
                       "SetEmojis"}
          /\ x.op # "MemberAdd"
        OBVIOUS
    <2> QED  BY <1>1, <1>3, <2>1, <2>2, OneCallQ
<1>5. CASE "items" \notin Track
    <2>1. ops = <<>>
        BY <1>2, <1>5, Tracked12
    <2> QED  BY <1>1, <1>3, <1>5, <2>1, QuietEventQ
<1> QED  BY <1>4, <1>5

LEMMA ItemEventsQ ==
    ASSUME IInv, calls = 0, QInv, NEW g \in Guild,
           \/ GuildEmojisUpdate(g)
           \/ \E i \in Item :
                 \/ GuildRoleCreate(g, i) \/ GuildRoleDelete(g, i)
                 \/ \E joins \in BOOLEAN : VoiceStateUpdate(g, i, joins)
    PROVE  QInv'
<1>1. truth[g].items \in SUBSET Item
    BY DEF IInv, GatewayOK, GuildRecord
<1>2. CASE GuildEmojisUpdate(g)
    <2>1. PICK S \in SUBSET Item : GuildChange(g, [truth[g] EXCEPT !.items = S],
                                       Tracks("items", <<Op("SetEmojis", g, S)>>))
        BY <1>2 DEF GuildEmojisUpdate
    <2>2. PICK x : x = Op("SetEmojis", g, S)
        OBVIOUS
    <2>3. x.op = "SetEmojis" /\ x.at = g /\ x.arg = S /\ GuildOf(x) = g
        BY <2>2, GuildOp
    <2>4. ItemsThen(x, truth[g].items) = S
        BY <2>3 DEF ItemsThen
    <2> QED  BY <2>1, <2>2, <2>3, <2>4, ItemEventQ
<1>3. ASSUME NEW i \in Item, GuildRoleCreate(g, i) PROVE QInv'
    <2>1. PICK S \in SUBSET Item : S = truth[g].items \cup {i}
        BY <1>1
    <2>2. PICK x : x = Op("RoleAdd", g, i)
        OBVIOUS
    <2>3. x.op = "RoleAdd" /\ x.at = g /\ x.arg = i /\ GuildOf(x) = g
        BY <2>2, GuildOp
    <2>4. ItemsThen(x, truth[g].items) = S
        BY <2>1, <2>3 DEF ItemsThen
    <2>5. GuildChange(g, [truth[g] EXCEPT !.items = S], Tracks("items", <<x>>))
        BY <1>3, <2>1, <2>2 DEF GuildRoleCreate
    <2> QED  BY <2>3, <2>4, <2>5, ItemEventQ
<1>4. ASSUME NEW i \in Item, GuildRoleDelete(g, i) PROVE QInv'
    <2>1. PICK S \in SUBSET Item : S = truth[g].items \ {i}
        BY <1>1
    <2>2. PICK x : x = Op("RoleRemove", g, i)
        OBVIOUS
    <2>3. x.op = "RoleRemove" /\ x.at = g /\ x.arg = i /\ GuildOf(x) = g
        BY <2>2, GuildOp
    <2>4. ItemsThen(x, truth[g].items) = S
        BY <2>1, <2>3 DEF ItemsThen
    <2>5. GuildChange(g, [truth[g] EXCEPT !.items = S], Tracks("items", <<x>>))
        BY <1>4, <2>1, <2>2 DEF GuildRoleDelete
    <2> QED  BY <2>3, <2>4, <2>5, ItemEventQ
<1>5. ASSUME NEW i \in Item, NEW joins \in BOOLEAN, VoiceStateUpdate(g, i, joins) PROVE QInv'
    <2>1. PICK S \in SUBSET Item : S = IF joins THEN truth[g].items \cup {i} ELSE truth[g].items \ {i}
        BY <1>1
    <2>2. PICK x : x = Op("voiceStateUpdate", g, [item |-> i, joins |-> joins])
        OBVIOUS
    <2>3. PICK arg : arg = [item |-> i, joins |-> joins]
        OBVIOUS
    <2>4. x.op = "voiceStateUpdate" /\ x.at = g /\ x.arg = arg /\ GuildOf(x) = g
        BY <2>2, <2>3, GuildOp
    <2>5. arg.item = i /\ arg.joins = joins
        BY <2>3
    <2>6. ItemsThen(x, truth[g].items) = S
        BY <2>1, <2>4, <2>5 DEF ItemsThen
    <2>7. GuildChange(g, [truth[g] EXCEPT !.items = S], Tracks("items", <<x>>))
        BY <1>5, <2>1, <2>2 DEF VoiceStateUpdate
    <2> QED  BY <2>4, <2>6, <2>7, ItemEventQ
<1> QED  BY <1>2, <1>3, <1>4, <1>5

\* The guild changes: what it is called, and maybe the emojis.
LEMMA GuildUpdateQ ==
    ASSUME IInv, calls = 0, QInv, NEW g \in Guild, GuildUpdate(g)
    PROVE  QInv'
<1>1. PICK E \in {None, truth[g].items} :
          GuildChange(g, truth[g], <<Op("GuildAdd", g, Bare(E))>>)
    BY DEF GuildUpdate
<1>2. PICK x : x = Op("GuildAdd", g, Bare(E))
    OBVIOUS
<1>3. PICK rec \in GuildRecord : rec = truth[g]
    BY DEF IInv, GatewayOK
<1>4. PICK ops : ops = <<x>>
    OBVIOUS
<1>5. EventAbout(g, rec, ops, told[g]) /\ heard' = heard
    <2>1. GuildChange(g, rec, ops)
        BY <1>1, <1>2, <1>3, <1>4
    <2> QED  BY <2>1, ChangeAbout DEF GuildChange, GuildEvent
<1>6. x.op = "GuildAdd" /\ x.at = g /\ x.arg = Bare(E) /\ GuildOf(x) = g
    BY <1>2, GuildOp
<1>7. Bare(E).items = E
    BY DEF Bare
<1>8. E \in (SUBSET Item) \cup {None}
    BY <1>3 DEF GuildRecord
<1>9. g \in heard => Due(x)'
    <2>1. \E F \in (SUBSET Item) \cup {None} : x.arg = Bare(F)
        BY <1>6, <1>8
    <2>2. Bare(E)' = Bare(E)
        BY DEF Bare
    <2> QED  BY <1>5, <1>6, <2>1 DEF Due, GuildCallOps, Bare
<1>10. /\ \A n : CountThen(x, n) = n
       /\ \A S : ChannelsThen(x, S) = S /\ MembersThen(x, S) = S
       /\ x.op # "ChannelAdd"
       /\ ItemsThen(x, truth[g].items) = rec.items
    BY <1>1, <1>3, <1>6, <1>7 DEF CountThen, ChannelsThen, MembersThen, ItemsThen
<1>11. Fits(g, rec, told[g], x, x)
    BY <1>3, <1>10, NoneComes DEF Fits
<1> QED  BY <1>3, <1>4, <1>5, <1>6, <1>9, <1>11, GuildEventQ

\* A call about a channel of a guild.
LEMMA ChannelOp ==
    ASSUME NEW c \in Text \cup Thread, NEW op, NEW arg
    PROVE  /\ Op(op, c, arg).op = op /\ Op(op, c, arg).at = c /\ Op(op, c, arg).arg = arg
           /\ GuildOf(Op(op, c, arg)) = Home[c]
BY DEF Op, GuildOf

\* An event of a guild's channels or threads that nothing tracks.
LEMMA UntrackedQ ==
    ASSUME IInv, calls = 0, QInv, NEW g \in Guild, NEW rec \in GuildRecord, NEW ops,
           EventAbout(g, rec, ops, told[g]),
           rec.channels \subseteq truth[g].channels \cup used',
           \A t \in rec.threads : t \in truth[g].threads \/ Parent[t] \in used', ops = <<>>,
           rec.members = truth[g].members, rec.items = truth[g].items,
           "channels" \in Track => rec.channels = truth[g].channels,
           "threads" \in Track =>
              /\ \A t \in truth[g].threads : t \in rec.threads \/ Parent[t] \notin rec.channels
              /\ StaysGone(g, rec)
              /\ rec.threads \subseteq truth[g].threads
    PROVE  QInv'
<1>1. PICK x : x = NoCall
    OBVIOUS
<1>2. Due(x)'
    BY <1>1, Nothing DEF Due, GuildCallOps
<1>3. /\ x.op # "ChannelAdd" /\ \A n : CountThen(x, n) = n
      /\ \A S : MembersThen(x, S) = S /\ ChannelsThen(x, S) = S /\ ItemsThen(x, S) = S
    BY <1>1, Nothing
<1>4. Fits(g, rec, told[g], x, x)
    BY <1>3 DEF Fits
<1> QED  BY <1>1, <1>2, <1>4, GuildEventQ

\* An event with one call.
LEMMA OneOfGuildQ ==
    ASSUME IInv, calls = 0, QInv, NEW g \in Guild, NEW rec \in GuildRecord, NEW ops, NEW x,
           EventAbout(g, rec, ops, told[g]),
           rec.channels \subseteq truth[g].channels \cup used',
           \A t \in rec.threads : t \in truth[g].threads \/ Parent[t] \in used', ops = <<x>>,
           GuildOf(x) = g, g \in heard => Due(x)',
           rec.members = truth[g].members, rec.items = truth[g].items,
           x.op \in {"ChannelAdd", "ChannelRemove", "ThreadListSync", "ThreadMembersUpdate",
                     "ThreadMemberUpdate"},
           "channels" \in Track =>
              /\ rec.channels = ChannelsThen(x, truth[g].channels)
              /\ \A c \in Text : x.op = "ChannelAdd" /\ x.at = c /\ HasChannel(c)
                                 => c \in truth[g].channels,
           "threads" \in Track =>
              /\ \A t \in truth[g].threads :
                    t \in rec.threads \/ Going(x, t) \/ Parent[t] \notin rec.channels
              /\ StaysGone(g, rec)
              /\ \A t \in rec.threads : t \in truth[g].threads \/ Coming(x, t)
    PROVE  QInv'
<1>1. /\ \A n : CountThen(x, n) = n
      /\ \A S : MembersThen(x, S) = S /\ ItemsThen(x, S) = S
    BY DEF CountThen, MembersThen, ItemsThen
<1>2. Fits(g, rec, told[g], x, x)
    BY <1>1 DEF Fits
<1> QED  BY <1>2, GuildEventQ

\* Threads as they are, with a list of them or of their members.
LEMMA ThreadNewsQ ==
    ASSUME IInv, calls = 0, QInv, NEW g \in Guild, NEW kind, NEW x, GuildOf(x) = g,
           GuildChange(g, truth[g], Tracks(kind, <<x>>)),
           x.op \in {"ThreadListSync", "ThreadMembersUpdate", "ThreadMemberUpdate"},
           g \in heard => Due(x)'
    PROVE  QInv'
<1>1. PICK ops : ops = Tracks(kind, <<x>>)
    OBVIOUS
<1>2. PICK rec \in GuildRecord : rec = truth[g]
    BY DEF IInv, GatewayOK
<1>3. EventAbout(g, rec, ops, told[g]) /\ rec.channels \subseteq truth[g].channels \cup used'
    BY <1>1, <1>2, ChangeAbout
<1>4. StaysGone(g, rec)
    BY <1>2, NoneComes
<1>5. CASE ops = <<x>>
    <2>1. /\ \A S : ChannelsThen(x, S) = S /\ x.op # "ChannelAdd"
          /\ x.op \in {"ChannelAdd", "ChannelRemove", "ThreadListSync", "ThreadMembersUpdate",
                       "ThreadMemberUpdate"}
        BY DEF ChannelsThen
    <2> QED  BY <1>2, <1>3, <1>4, <1>5, <2>1, OneOfGuildQ
<1>6. CASE ops = <<>>
    BY <1>2, <1>3, <1>4, <1>6, UntrackedQ
<1> QED  BY <1>1, <1>5, <1>6, Tracked12

LEMMA ThreadListSyncEventQ ==
    ASSUME IInv, calls = 0, QInv, NEW g \in Guild, NEW ids \in (SUBSET Text) \cup {None},
           ThreadListSyncEvent(g, ids)
    PROVE  QInv'
<1>1. PICK synced : synced = {t \in truth[g].threads : ids = None \/ Parent[t] \in ids}
    OBVIOUS
<1>2. PICK mine \in SUBSET truth[g].threads :
          GuildChange(g, truth[g], Tracks("threads", <<Op("ThreadListSync", g,
              [ids |-> ids, threads |-> synced, mine |-> mine])>>))
    BY <1>1 DEF ThreadListSyncEvent
<1>3. PICK arg : arg = [ids |-> ids, threads |-> synced, mine |-> mine]
    OBVIOUS
<1>4. PICK x : x = Op("ThreadListSync", g, arg)
    OBVIOUS
<1>5. /\ x.op = "ThreadListSync" /\ x.at = g /\ x.arg = arg /\ GuildOf(x) = g
      /\ arg.ids = ids /\ arg.threads = synced /\ arg.mine = mine
    BY <1>3, <1>4, GuildOp
<1>6. heard' = heard /\ truth'[g] = truth[g]
    BY <1>2 DEF GuildChange, GuildEvent, IInv, GatewayOK
<1>7. g \in heard => Due(x)'
    BY <1>1, <1>5, <1>6 DEF Due, GuildCallOps
<1>8. GuildChange(g, truth[g], Tracks("threads", <<x>>))
    BY <1>2, <1>3, <1>4
<1> QED  BY <1>5, <1>7, <1>8, ThreadNewsQ

LEMMA ThreadMemberEventsQ ==
    ASSUME IInv, calls = 0, QInv, NEW t \in Thread,
           \/ ThreadMemberEvent(t)
           \/ \E u \in User : ThreadMembersEvent(t, {u}, {}) \/ ThreadMembersEvent(t, {}, {u})
    PROVE  QInv'
<1>1. PICK g \in Guild : g = Home[t]
    BY ConstantsAssumption
<1>2. CASE ThreadMemberEvent(t)
    <2>1. PICK x : x = Op("ThreadMemberUpdate", t, None)
        OBVIOUS
    <2>2. x.op = "ThreadMemberUpdate" /\ x.at = t /\ GuildOf(x) = g
        BY <1>1, <2>1, ChannelOp
    <2>3. GuildChange(g, truth[g], Tracks("threads", <<x>>))
        BY <1>1, <1>2, <2>1 DEF ThreadMemberEvent
    <2>4. Due(x)'
        BY <2>2 DEF Due, GuildCallOps
    <2> QED  BY <2>2, <2>3, <2>4, ThreadNewsQ
<1>3. ASSUME NEW added, NEW removed, ThreadMembersEvent(t, added, removed) PROVE QInv'
    <2>1. PICK named \in SUBSET added, presences \in SUBSET (IF added = {} THEN {} ELSE truth[g].items) :
              GuildChange(g, truth[g], Tracks("threadMembers", <<Op("ThreadMembersUpdate", t,
                  [added |-> added, removed |-> removed, named |-> named, presences |-> presences])>>))
        BY <1>1, <1>3 DEF ThreadMembersEvent
    <2>2. PICK arg : arg = [added |-> added, removed |-> removed, named |-> named,
                            presences |-> presences]
        OBVIOUS
    <2>3. PICK x : x = Op("ThreadMembersUpdate", t, arg)
        OBVIOUS
    <2>4. /\ x.op = "ThreadMembersUpdate" /\ x.at = t /\ x.arg = arg /\ GuildOf(x) = g
          /\ arg.named = named /\ arg.presences = presences
        BY <1>1, <2>2, <2>3, ChannelOp
    <2>5. GuildChange(g, truth[g], Tracks("threadMembers", <<x>>))
        BY <2>1, <2>2, <2>3
    <2>6. truth'[g] = truth[g]
        BY <2>5 DEF GuildChange, GuildEvent, IInv, GatewayOK
    <2>7. added \subseteq truth[g].members
        BY <1>1, <1>3 DEF ThreadMembersEvent
    <2>8. named \subseteq truth[g].members /\ presences \subseteq truth[g].items
        BY <2>1, <2>7
    <2>9. Due(x)'
        BY <1>1, <2>4, <2>6, <2>8 DEF Due, GuildCallOps
    <2> QED  BY <2>4, <2>5, <2>9, ThreadNewsQ
<1> QED  BY <1>2, <1>3

\* A thread comes, changes or is archived.
LEMMA ThreadUpdateQ ==
    ASSUME IInv, calls = 0, QInv, NEW t \in Thread, NEW archived \in BOOLEAN,
           ThreadUpdate(t, archived)
    PROVE  QInv'
<1>1. PICK g \in Guild : g = Home[t]
    BY ConstantsAssumption
<1>2. truth[g] \in GuildRecord
    BY DEF IInv, GatewayOK
<1>3. PICK S \in SUBSET Thread : S = IF archived THEN truth[g].threads \ {t} ELSE truth[g].threads \cup {t}
    BY <1>2 DEF GuildRecord
<1>4. PICK rec : rec = [truth[g] EXCEPT !.threads = S]
    OBVIOUS
<1>5. /\ rec \in GuildRecord /\ rec.members = truth[g].members
      /\ rec.channels = truth[g].channels /\ rec.items = truth[g].items /\ rec.threads = S
    BY <1>2, <1>4 DEF GuildRecord
<1>6. PICK x : x = Op("ChannelAdd", t, archived)
    OBVIOUS
<1>7. x.op = "ChannelAdd" /\ x.at = t /\ x.arg = archived /\ GuildOf(x) = g
    BY <1>1, <1>6, ChannelOp
<1>8. PICK ops : ops = Tracks("threads", <<x>>)
    OBVIOUS
<1>9. GuildChange(g, rec, ops)
    BY <1>1, <1>3, <1>4, <1>6, <1>8 DEF ThreadUpdate
<1>10. /\ EventAbout(g, rec, ops, told[g]) /\ used' = used
       /\ rec.channels \subseteq truth[g].channels \cup used'
    BY <1>5, <1>9, ChangeAbout
<1>11. truth'[g] = rec
    BY <1>9 DEF GuildChange, GuildEvent, IInv, GatewayOK
<1>12. Parent[t] \in used
    <2>1. Parent[t] \in truth[g].channels
        BY <1>1 DEF ThreadUpdate
    <2>2. Home[Parent[t]] = g
        BY <2>1 DEF IInv, Homes, ListOf
    <2> QED  BY <2>1, <2>2, ConstantsAssumption DEF QInv, Given
<1>13. /\ \A s \in rec.threads : s \in truth[g].threads \/ Parent[s] \in used'
      /\ StaysGone(g, rec)
    BY <1>3, <1>5, <1>10, <1>12 DEF StaysGone
<1>14. t \notin Text /\ (archived <=> t \notin S)
    BY <1>3, ConstantsAssumption
<1>15. CASE "threads" \in Track
    <2>1. ops = <<x>>
        BY <1>8, <1>15, Tracked12
    <2>2. Due(x)'
        <3>1. (x.arg <=> x.at \notin truth'[Home[x.at]].threads)
            BY <1>1, <1>5, <1>7, <1>11, <1>14
        <3> QED  BY <1>7, <1>10, <1>12, <1>14, <3>1 DEF Due, GuildCallOps
    <2>3. \A L : ChannelsThen(x, L) = L
        BY <1>7, <1>14 DEF ChannelsThen
    <2>4. \A c \in Text : x.at # c
        BY <1>7, <1>14
    <2>5. /\ \A s \in truth[g].threads : s \in rec.threads \/ Going(x, s)
          /\ \A s \in rec.threads : s \in truth[g].threads \/ Coming(x, s)
        BY <1>3, <1>5, <1>7 DEF Going, Coming
    <2> QED  BY <1>5, <1>7, <1>10, <1>13, <2>1, <2>2, <2>3, <2>4, <2>5, OneOfGuildQ
<1>16. CASE "threads" \notin Track
    <2>1. ops = <<>>
        BY <1>8, <1>16, Tracked12
    <2> QED  BY <1>5, <1>10, <1>13, <1>16, <2>1, UntrackedQ
<1> QED  BY <1>15, <1>16

\* A channel goes.
LEMMA ChannelGoesQ ==
    ASSUME IInv, calls = 0, QInv, NEW c \in Text, ChannelDelete(c)
    PROVE  QInv'
<1>1. PICK g \in Guild : g = Home[c]
    BY ConstantsAssumption
<1>2. truth[g] \in GuildRecord
    BY DEF IInv, GatewayOK
<1>3. PICK x : x = Op("ChannelRemove", g, c)
    OBVIOUS
<1>4. x.op = "ChannelRemove" /\ x.at = g /\ x.arg = c /\ GuildOf(x) = g
    BY <1>3, GuildOp
<1>5. PICK rec : rec = [truth[g] EXCEPT !.channels = @ \ {c}, !.threads = {t \in @ : Parent[t] # c}]
    OBVIOUS
<1>6. /\ rec \in GuildRecord /\ rec.members = truth[g].members
      /\ rec.channels = truth[g].channels \ {c} /\ rec.items = truth[g].items
      /\ rec.threads = {t \in truth[g].threads : Parent[t] # c}
    BY <1>2, <1>5 DEF GuildRecord
<1>7. PICK ops : ops = Tracks("channels", <<x>>)
    OBVIOUS
<1>8. GuildChange(g, rec, ops)
    BY <1>1, <1>3, <1>5, <1>7 DEF ChannelDelete
<1>9. EventAbout(g, rec, ops, told[g]) /\ rec.channels \subseteq truth[g].channels \cup used'
    BY <1>6, <1>8, ChangeAbout
<1>10. c \notin Thread
    BY ConstantsAssumption
<1>11. /\ \A t \in truth[g].threads : t \in rec.threads \/ Parent[t] \notin rec.channels
       /\ rec.threads \subseteq truth[g].threads /\ StaysGone(g, rec)
    BY <1>6 DEF StaysGone
<1>12. CASE "channels" \in Track
    <2>1. ops = <<x>>
        BY <1>7, <1>12, Tracked12
    <2>2. Due(x)'
        BY <1>4, <1>10 DEF Due, GuildCallOps
    <2>3. \A L : ChannelsThen(x, L) = L \ {c}
        BY <1>4 DEF ChannelsThen
    <2> QED  BY <1>4, <1>6, <1>9, <1>11, <2>1, <2>2, <2>3, OneOfGuildQ
<1>13. CASE "channels" \notin Track
    <2>1. ops = <<>>
        BY <1>7, <1>13, Tracked12
    <2> QED  BY <1>6, <1>9, <1>11, <1>13, <2>1, UntrackedQ
<1> QED  BY <1>12, <1>13

\* A thread goes.
LEMMA ThreadGoesQ ==
    ASSUME IInv, calls = 0, QInv, NEW c \in Thread, ThreadDelete(c)
    PROVE  QInv'
<1>1. PICK g \in Guild : g = Home[c]
    BY ConstantsAssumption
<1>2. truth[g] \in GuildRecord
    BY DEF IInv, GatewayOK
<1>3. PICK x : x = Op("ChannelRemove", g, c)
    OBVIOUS
<1>4. x.op = "ChannelRemove" /\ x.at = g /\ x.arg = c /\ GuildOf(x) = g
    BY <1>3, GuildOp
<1>5. PICK rec : rec = [truth[g] EXCEPT !.threads = @ \ {c}]
    OBVIOUS
<1>6. /\ rec \in GuildRecord /\ rec.members = truth[g].members
      /\ rec.channels = truth[g].channels /\ rec.items = truth[g].items
      /\ rec.threads = truth[g].threads \ {c}
    BY <1>2, <1>5 DEF GuildRecord
<1>7. PICK ops : ops = Tracks("threads", <<x>>)
    OBVIOUS
<1>8. GuildEvent(g, rec, ops) /\ used' = used \cup {c} /\ told' = told
    BY <1>1, <1>3, <1>5, <1>7 DEF ThreadDelete
<1>9. /\ EventAbout(g, rec, ops, told[g]) /\ rec.channels \subseteq truth[g].channels \cup used'
      /\ rec.threads \subseteq truth[g].threads /\ StaysGone(g, rec)
    BY <1>6, <1>8 DEF EventAbout, StaysGone
<1>10. truth'[g] = rec
    BY <1>8 DEF GuildEvent, IInv, GatewayOK
<1>11. c \notin Text
    BY ConstantsAssumption
<1>12. CASE "threads" \in Track
    <2>1. ops = <<x>>
        BY <1>7, <1>12, Tracked12
    <2>2. Due(x)'
        BY <1>4, <1>6, <1>10 DEF Due, GuildCallOps
    <2>3. ChannelsThen(x, truth[g].channels) = rec.channels
        <3>1. ChannelsThen(x, truth[g].channels) = truth[g].channels \ {c}
            BY <1>4 DEF ChannelsThen
        <3>2. c \notin truth[g].channels
            BY <1>2, <1>11 DEF GuildRecord
        <3> QED  BY <1>6, <3>1, <3>2
    <2>4. \A t \in truth[g].threads : t \in rec.threads \/ Going(x, t)
        BY <1>4, <1>6 DEF Going
    <2> QED  BY <1>4, <1>6, <1>9, <2>1, <2>2, <2>3, <2>4, OneOfGuildQ
<1>13. CASE "threads" \notin Track
    <2>1. ops = <<>>
        BY <1>7, <1>13, Tracked12
    <2> QED  BY <1>6, <1>9, <1>13, <2>1, UntrackedQ
<1> QED  BY <1>12, <1>13

\* A channel comes or changes.
LEMMA ChannelComesQ ==
    ASSUME IInv, calls = 0, QInv, NEW c \in Text, ChannelCreate(c)
    PROVE  QInv'
<1>1. PICK g \in Guild : g = Home[c]
    BY ConstantsAssumption
<1>2. truth[g] \in GuildRecord
    BY DEF IInv, GatewayOK
<1>3. PICK rec : rec = [truth[g] EXCEPT !.channels = @ \cup {c}]
    OBVIOUS
<1>4. /\ rec \in GuildRecord /\ rec.members = truth[g].members
      /\ rec.channels = truth[g].channels \cup {c} /\ rec.items = truth[g].items
      /\ rec.threads = truth[g].threads
    BY <1>2, <1>3 DEF GuildRecord
<1>5. PICK x : x = Op("ChannelAdd", c, FALSE)
    OBVIOUS
<1>6. x.op = "ChannelAdd" /\ x.at = c /\ GuildOf(x) = g
    BY <1>1, <1>5 DEF Op, GuildOf
<1>7. PICK ops : ops = Tracks("channels", <<x>>)
    OBVIOUS
<1>8. /\ GuildEvent(g, rec, ops) /\ used' = used \cup {c}
      /\ told' = told
      /\ c \in used => c \in truth[g].channels
    BY <1>1, <1>3, <1>5, <1>7 DEF ChannelCreate
<1>9. EventAbout(g, rec, ops, told[g]) /\ rec.channels \subseteq truth[g].channels \cup used'
    BY <1>4, <1>8 DEF EventAbout
<1>10. HasChannel(c) => c \in truth[g].channels
    BY <1>8 DEF QInv, Given
<1>11. StaysGone(g, rec)
    <2>1. ASSUME HasGuild(g), NEW t \in guildMap[g].threads, Parent[t] = c
          PROVE  c \in truth[g].channels
        <3>1. t \in Thread /\ HasChannel(t)
            BY <1>1, <2>1, Entries DEF QInv, Alone, IInv, ChannelsAgree, ListOf, GuildRecord, CacheOK
        <3> QED  BY <1>8, <2>1, <3>1 DEF QInv, Given
    <2> QED  BY <1>4, <2>1 DEF StaysGone
<1>12. CASE "channels" \in Track
    <2>1. ops = <<x>>
        BY <1>7, <1>12, Tracked12
    <2>2. Due(x)'
        <3>1. c \notin Thread /\ c \in used'
            BY <1>8, ConstantsAssumption
        <3> QED  BY <1>6, <3>1 DEF Due, GuildCallOps
    <2>3. \A L : ChannelsThen(x, L) = L \cup {c}
        BY <1>6 DEF ChannelsThen
    <2> QED  BY <1>4, <1>6, <1>9, <1>10, <1>11, <2>1, <2>2, <2>3, OneOfGuildQ
<1>13. CASE "channels" \notin Track
    <2>1. ops = <<>>
        BY <1>7, <1>13, Tracked12
    <2> QED  BY <1>4, <1>9, <1>11, <1>13, <2>1, UntrackedQ
<1> QED  BY <1>12, <1>13

-----------------------------------------------------------------------------
(* Sessions, private channels and messages *)

\* The client hears of guilds in a session only.
Connected == heard # {} => online

LEMMA SessionQ ==
    ASSUME IInv, calls = 0, QInv, Connected, Ready \/ SessionLost
    PROVE  QInv'
<1>1. PICK g : g = None
    OBVIOUS
<1>2. g \notin Guild /\ g \notin heard'
    BY <1>1, ConstantsAssumption DEF IInv, GatewayOK, Ready, SessionLost
<1>3. /\ heard' = {} /\ UNCHANGED <<truth, messages, used, told>>
    BY DEF Ready, SessionLost, Connected
<1>4. CASE Ready
    <2>1. PICK P \in {{}, Private} :
              Tell(TRUE, <<Op("Ready", None, [guilds |-> joined, private |-> P])>>)
        BY <1>4 DEF Ready
    <2>2. PICK x : x = Op("Ready", None, [guilds |-> joined, private |-> P])
        OBVIOUS
    <2>3. PICK ops : ops = <<x>>
        OBVIOUS
    <2>4. x.op = "Ready" /\ x.at = None /\ GuildOf(x) = g
        BY <1>1, <2>2, ConstantsAssumption DEF Op, GuildOf, Channel
    <2>5. \E hears : hears /\ Tell(hears, ops)
        BY <2>1, <2>2, <2>3
    <2>6. PICK hears : hears /\ Tell(hears, ops)
        BY <2>5
    <2>7. FirstCall' = x /\ LastCall' = x /\ ThenDue'
        <3>1. todo'[loop] = <<x>>
            BY <2>3, <2>6, TellOne
        <3> QED  BY <3>1, OneOp
    <2>8. Due(FirstCall)'
        BY <1>3, <2>4, <2>7 DEF Due, GuildCallOps
    <2>9. GuildOf(FirstCall') = g /\ GuildOf(LastCall') = g
        BY <2>4, <2>7
    <2> QED  BY <1>2, <1>3, <2>6, <2>7, <2>8, <2>9, EventQ
<1>5. CASE SessionLost
    <2>1. PICK ops : ops = <<>>
        OBVIOUS
    <2>2. PICK hears : ~hears /\ Tell(hears, ops)
        BY <1>5, <2>1 DEF SessionLost
    <2>3. FirstCall' = NoCall /\ LastCall' = NoCall /\ ThenDue'
        BY <2>2, NoOp
    <2>4. Due(FirstCall)'
        BY <2>3, Nothing DEF Due, GuildCallOps
    <2> QED  BY <1>2, <1>3, <2>2, <2>3, <2>4, EventQ
<1> QED  BY <1>4, <1>5

\* The bot joins a guild, gets it or leaves it.
LEMMA GuildLifeQ ==
    ASSUME IInv, Known, calls = 0, QInv, NEW g \in Guild,
           BotJoins(g) \/ GuildCreate(g) \/ GuildDelete(g)
    PROVE  QInv'
<1>1. UNCHANGED <<truth, messages, used>>
    BY DEF BotJoins, GuildCreate, GuildDelete
<1>2. CASE BotJoins(g)
    <2>1. PICK ops : ops = <<>>
        OBVIOUS
    <2>2. PICK hears : ~hears /\ Tell(hears, ops)
        BY <1>2, <2>1 DEF BotJoins
    <2>3. FirstCall' = NoCall /\ LastCall' = NoCall /\ ThenDue'
        BY <2>2, NoOp
    <2>4. Due(FirstCall)'
        BY <2>3, Nothing DEF Due, GuildCallOps
    <2>5. PICK h : h = None
        OBVIOUS
    <2>6. UNCHANGED <<heard, told>> /\ h \notin heard'
        BY <1>2, <2>5, ConstantsAssumption DEF BotJoins, IInv, GatewayOK
    <2> QED  BY <1>1, <2>2, <2>3, <2>4, <2>6, EventQ
<1>3. CASE GuildCreate(g)
    <2>1. PICK M \in SUBSET truth[g].members :
              /\ Tell(TRUE, <<Op("GuildAdd", g, Whole(g, M))>>)
              /\ told' = [told EXCEPT ![g] = M]
        BY <1>3 DEF GuildCreate
    <2>2. PICK x : x = Op("GuildAdd", g, Whole(g, M))
        OBVIOUS
    <2>3. PICK ops : ops = <<x>>
        OBVIOUS
    <2>4. PICK hears : hears /\ Tell(hears, ops)
        BY <2>1, <2>2, <2>3
    <2>5. x.op = "GuildAdd" /\ x.at = g /\ x.arg = Whole(g, M) /\ GuildOf(x) = g
        BY <2>2, GuildOp
    <2>6. told'[g] = M /\ \A h \in Guild : h # g => told'[h] = told[h]
        BY <2>1 DEF Known
    <2>7. todo'[loop] = <<x>>
        BY <2>3, <2>4, TellOne
    <2>8. FirstCall' = x /\ LastCall' = x /\ ThenDue' /\ Len(todo'[loop]) = 1
        BY <2>7, OneOp
    <2>9. Whole(g, told[g])' = Whole(g, M)
        BY <1>1, <2>6 DEF Whole
    <2>10. Fresh(g)'
        BY <2>2, <2>7, <2>9 DEF Fresh
    <2>11. heard' = heard \cup {g}
        BY <1>3 DEF GuildCreate
    <2>12. Due(FirstCall)'
        <3>1. told'[g] \subseteq truth'[g].members
            BY <1>1, <2>6
        <3> QED  BY <2>5, <2>8, <2>9, <2>11, <3>1 DEF Due, GuildCallOps
    <2>13. \A h \in heard' : h # g => h \in heard /\ told'[h] = told[h]
        BY <2>6, <2>11 DEF IInv, GatewayOK
    <2>14. GuildOf(FirstCall') = g /\ GuildOf(LastCall') = g
        BY <2>5, <2>8
    <2> QED  BY <1>1, <2>4, <2>8, <2>10, <2>12, <2>13, <2>14, EventQ
<1>4. CASE GuildDelete(g)
    <2>1. PICK x : x = Op("GuildRemove", g, None)
        OBVIOUS
    <2>2. PICK ops : ops = <<x>>
        OBVIOUS
    <2>3. PICK hears : hears = online
        OBVIOUS
    <2>4. Tell(hears, ops) /\ heard' = heard \ {g} /\ told' = told
        BY <1>4, <2>1, <2>2, <2>3 DEF GuildDelete
    <2>5. x.op = "GuildRemove" /\ x.at = g /\ GuildOf(x) = g
        BY <2>1, GuildOp
    <2>6. PICK y : y = IF hears THEN x ELSE NoCall
        OBVIOUS
    <2>7. ThenDue' /\ FirstCall' = y /\ LastCall' = y
        <3>1. CASE hears
            <4>1. todo'[loop] = <<x>>
                BY <2>2, <2>4, <3>1, TellOne
            <4>2. FirstCall' = x /\ LastCall' = x /\ ThenDue'
                BY <4>1, OneOp
            <4> QED  BY <2>6, <3>1, <4>2
        <3>2. CASE ~hears
            BY <2>4, <2>6, <3>2, NoOp
        <3> QED  BY <3>1, <3>2
    <2>8. g \notin heard' /\ \A h \in heard' : h \in heard
        BY <2>4
    <2>9. Due(FirstCall)'
        BY <2>5, <2>6, <2>7, <2>8, Nothing DEF Due, GuildCallOps
    <2>10. /\ FirstCall' = NoCall \/ GuildOf(FirstCall') = g
           /\ LastCall' = NoCall \/ GuildOf(LastCall') = g
        BY <2>5, <2>6, <2>7
    <2> QED  BY <1>1, <2>4, <2>7, <2>8, <2>9, <2>10, EventQ
<1> QED  BY <1>2, <1>3, <1>4

\* Private channels are of no guild.
LEMMA PrivateChannelQ ==
    ASSUME IInv, calls = 0, QInv, NEW c \in Private, NEW op \in {"ChannelAdd", "ChannelRemove"},
           PrivateChannel(c, op)
    PROVE  QInv'
<1>1. PICK x : x = IF op = "ChannelAdd" THEN Op(op, c, FALSE) ELSE Op(op, None, c)
    OBVIOUS
<1>2. PICK ops : ops = Tracks("channels", <<x>>)
    OBVIOUS
<1>3. PICK hears : hears = online
    OBVIOUS
<1>4. /\ Tell(hears, ops)
      /\ messages' = IF op = "ChannelRemove" THEN [messages EXCEPT ![c] = <<>>] ELSE messages
      /\ UNCHANGED <<truth, used, heard, told>>
    BY <1>1, <1>2, <1>3 DEF PrivateChannel
<1>5. c \notin Text \cup Thread /\ None \notin Text \cup Thread
    BY ConstantsAssumption DEF Channel
<1>6. x.op = op /\ (op = "ChannelAdd" => x.at = c) /\ (op = "ChannelRemove" => x.at = None /\ x.arg = c)
    BY <1>1 DEF Op
<1>7. PICK g : g = GuildOf(x)
    OBVIOUS
<1>8. g \notin heard'
    <2>1. g \in {c, None}
        BY <1>5, <1>6, <1>7 DEF GuildOf
    <2> QED  BY <1>4, <2>1, ConstantsAssumption DEF IInv, GatewayOK, Channel
<1>9. \A d \in Text \cup Thread : messages'[d] = messages[d]
    BY <1>4, <1>5 DEF IInv, GatewayOK, Channel
<1>10. PICK y : y = IF hears /\ ops # <<>> THEN x ELSE NoCall
    OBVIOUS
<1>11. ThenDue' /\ FirstCall' = y /\ LastCall' = y
    <2>1. ops = <<x>> \/ ops = <<>>
        BY <1>2, Tracked12
    <2>2. CASE ~hears
        BY <1>4, <1>10, <2>2, NoOp
    <2>3. CASE hears /\ ops = <<x>>
        <3>1. y = x
            BY <1>10, <2>3
        <3>2. todo'[loop] = <<x>>
            BY <1>4, <2>3, TellOne
        <3>3. FirstCall' = x /\ LastCall' = x /\ ThenDue'
            BY <3>2, OneOp
        <3> QED  BY <3>1, <3>3
    <2>4. CASE hears /\ ops = <<>>
        BY <1>4, <1>10, <2>4, NoOp
    <2> QED  BY <2>1, <2>2, <2>3, <2>4
<1>12. Due(FirstCall)'
    <2>1. CASE y = NoCall
        BY <1>11, <2>1, Nothing DEF Due, GuildCallOps
    <2>2. CASE y = x /\ op = "ChannelAdd"
        BY <1>5, <1>6, <1>11, <2>2 DEF Due, GuildCallOps
    <2>3. CASE y = x /\ op = "ChannelRemove"
        BY <1>5, <1>6, <1>11, <2>3 DEF Due, GuildCallOps
    <2> QED  BY <1>10, <2>1, <2>2, <2>3
<1>13. /\ FirstCall' = NoCall \/ GuildOf(FirstCall') = g
       /\ LastCall' = NoCall \/ GuildOf(LastCall') = g
    BY <1>7, <1>10, <1>11
<1>14. /\ used \subseteq used'
       /\ \A d \in Text : d \in truth'[Home[d]].channels =>
              d \in used' \/ d \in truth[Home[d]].channels
       /\ \A d \in Thread : d \in truth'[Home[d]].threads =>
              Parent[d] \in used' \/ d \in truth[Home[d]].threads
       /\ \A h \in heard' : h \in heard /\ truth'[h] = truth[h] /\ told'[h] = told[h]
    BY <1>4
<1> QED  BY <1>4, <1>8, <1>9, <1>11, <1>12, <1>13, <1>14, EventQ

\* What is in a list, and in one with a message more.
LEMMA AppendContains ==
    ASSUME NEW list \in Seq(Message), NEW m \in Message
    PROVE  /\ Contains(m, Append(list, m))
           /\ \A k : Contains(k, list) => Contains(k, Append(list, m))
<1>1. PICK s \in Seq(Message) : s = Append(list, m)
    <2>1. Append(list, m) \in Seq(Message)
        OBVIOUS
    <2> QED  BY <2>1, Zenon
<1>2. Len(s) = Len(list) + 1 /\ Len(list) \in Nat
    BY <1>1
<1>3. \A i \in 1 .. Len(list) + 1 : s[i] = IF i = Len(list) + 1 THEN m ELSE list[i]
    BY <1>1
<1>4. DOMAIN s = 1 .. Len(list) + 1 /\ DOMAIN list = 1 .. Len(list)
    BY <1>2
<1>5. Contains(m, s)
    <2>1. Len(list) + 1 \in DOMAIN s /\ s[Len(list) + 1] = m
        BY <1>2, <1>3, <1>4
    <2> QED  BY <2>1 DEF Contains
<1>6. ASSUME NEW k, Contains(k, list) PROVE Contains(k, s)
    <2>1. PICK i \in 1 .. Len(list) : list[i] = k
        BY <1>4, <1>6 DEF Contains
    <2>2. i \in DOMAIN s /\ s[i] = k
        BY <1>2, <1>3, <1>4, <2>1
    <2> QED  BY <2>2 DEF Contains
<1> QED  BY <1>1, <1>5, <1>6

\* A channel's messages change, and a call tells the client of the one.
LEMMA MessageEventQ ==
    ASSUME IInv, calls = 0, QInv, Connected, NEW c \in Channel, NEW list,
           NEW op \in {"MessageAdd", "MessageRemove"}, NEW m \in Message,
           MessageEvent(c, list, op, m), used \subseteq used',
           op = "MessageAdd" => Contains(m, list),
           \A k : Contains(k, messages[c]) =>
               Contains(k, list) \/ (op = "MessageRemove" /\ k = m)
    PROVE  QInv'
<1>1. PICK x : x = Op(op, c, m)
    OBVIOUS
<1>2. x.op = op /\ x.at = c /\ x.arg = m
    BY <1>1 DEF Op
<1>3. PICK g : g = GuildOf(x)
    OBVIOUS
<1>4. PICK hears : hears = Hears(c)
    OBVIOUS
<1>5. PICK ops : ops = <<x>>
    OBVIOUS
<1>6. Tell(hears, ops) /\ UNCHANGED <<truth, heard, told>> /\ messages' = [messages EXCEPT ![c] = list]
    BY <1>1, <1>4, <1>5 DEF MessageEvent
<1>7. messages'[c] = list /\ \A d \in Channel : d # c => messages'[d] = messages[d]
    BY <1>6 DEF IInv, GatewayOK
<1>8. UNCHANGED <<guildMap, memberMap, channelMap>> /\ todo[loop] = <<>>
    BY <1>6 DEF Tell, cache
<1>9. g \in Guild => c \in Text \cup Thread /\ g = Home[c]
    BY <1>2, <1>3, ConstantsAssumption DEF GuildOf, Channel
<1>10. \A h \in heard' : h # g =>
          /\ h \in heard /\ truth'[h] = truth[h] /\ told'[h] = told[h]
          /\ \A d \in Text \cup Thread : Home[d] = h => messages'[d] = messages[d]
    <2>1. \A d \in Text \cup Thread : d = c => Home[d] = g
        BY <1>2, <1>3 DEF GuildOf
    <2> QED  BY <1>6, <1>7, <2>1 DEF Channel
<1>11. /\ \A d \in Text : d \in truth'[Home[d]].channels =>
              d \in used' \/ d \in truth[Home[d]].channels
       /\ \A d \in Thread : d \in truth'[Home[d]].threads =>
              Parent[d] \in used' \/ d \in truth[Home[d]].threads
    BY <1>6
<1>12. CASE ~hears
    <2>1. FirstCall' = NoCall /\ LastCall' = NoCall /\ ThenDue'
        BY <1>6, <1>12, NoOp
    <2>2. Due(FirstCall)'
        BY <2>1, Nothing DEF Due, GuildCallOps
    <2>3. g \notin heard'
        <3>1. ASSUME g \in heard PROVE FALSE
            <4>1. g \in Guild
                BY <3>1 DEF IInv, GatewayOK
            <4>2. online /\ c \notin Private /\ Home[c] \in heard
                BY <1>9, <3>1, <4>1, ConstantsAssumption DEF Connected
            <4> QED  BY <1>4, <1>12, <4>2 DEF Hears
        <3> QED  BY <1>6, <3>1
    <2> QED  BY <1>6, <1>10, <1>11, <2>1, <2>2, <2>3, EventQ
<1>13. CASE hears
    <2>1. todo'[loop] = <<x>>
        BY <1>5, <1>6, <1>13, TellOne
    <2>2. FirstCall' = x /\ LastCall' = x /\ ThenDue'
        BY <2>1, OneOp
    <2>3. Due(FirstCall)'
        BY <1>2, <1>7, <2>2 DEF Due, GuildCallOps
    <2>4. ASSUME g \in heard PROVE RightNow(g)'
        <3>1. Right(g, NoCall, NoCall) /\ g \in Guild
            BY <1>8, <2>4, RightBefore DEF IInv, GatewayOK
        <3>2. /\ HasGuild(g) /\ HasGuild(g)'
              /\ guildMap'[g] = guildMap[g] /\ memberMap'[g] = memberMap[g]
              /\ truth'[g] = truth[g] /\ told'[g] = told[g]
            BY <1>6, <1>8, <3>1 DEF Right, HasGuild
        <3>3. /\ \A n : CountThen(x, n) = n
              /\ \A S : MembersThen(x, S) = S /\ ChannelsThen(x, S) = S /\ ItemsThen(x, S) = S
              /\ \A t : ~Going(x, t) /\ ~Coming(x, t)
              /\ x.op # "ChannelAdd"
            BY <1>2 DEF CountThen, MembersThen, ChannelsThen, ItemsThen, Going, Coming
        <3>4. CountRight(g, x)'
            BY <3>1, <3>2, <3>3, Nothing DEF Right, CountRight
        <3>5. MembersRight(g, x)'
            BY <3>1, <3>2, <3>3, Nothing DEF Right, MembersRight
        <3>6. ChannelsRight(g, x)'
            BY <3>1, <3>2, <3>3, Nothing DEF Right, ChannelsRight
        <3>7. ThreadsRight(g, x)'
            BY <1>8, <3>1, <3>2, <3>3, Nothing DEF Right, ThreadsRight, HasChannel
        <3>8. ItemsRight(g, x)'
            BY <3>1, <3>2, <3>3, Nothing DEF Right, ItemsRight
        <3>9. MessagesRight(g, x)'
            <4>1. ListOf(guildMap[g])' = ListOf(guildMap[g]) /\ guildMap[g] \in GuildRecord
                BY <3>1, <3>2, Entries DEF ListOf, IInv
            <4>2. \A d \in ListOf(guildMap[g]) : d \in Channel
                BY <4>1 DEF ListOf, GuildRecord, Channel
            <4>3. \A d \in ListOf(guildMap[g]), k \in Message :
                      Contains(k, channelMap[d].messages) => Contains(k, messages[d])
                BY <3>1, Nothing DEF Right, MessagesRight
            <4>4. \A d \in ListOf(guildMap[g]), k \in Message :
                      Contains(k, channelMap[d].messages) =>
                          Contains(k, messages'[d]) \/ (op = "MessageRemove" /\ d = c /\ k = m)
                BY <1>7, <4>2, <4>3
            <4> QED  BY <1>2, <1>8, <4>1, <4>4 DEF MessagesRight
        <3>10. For(g, x) = x
            BY <1>3 DEF For
        <3>11. Right(g, x, x)'
            BY <3>2, <3>4, <3>5, <3>6, <3>7, <3>8, <3>9 DEF Right
        <3> QED  BY <2>2, <3>10, <3>11 DEF RightNow, For
    <2>5. GuildOf(FirstCall') = g /\ GuildOf(LastCall') = g
        BY <1>3, <2>2
    <2>6. g \in heard' => RightNow(g)'
        BY <1>6, <2>4
    <2> QED  BY <1>6, <1>10, <1>11, <2>2, <2>3, <2>5, <2>6, EventQ
<1> QED  BY <1>12, <1>13

LEMMA MessageEventsQ ==
    ASSUME IInv, calls = 0, QInv, Connected, NEW m \in Message,
           MessageCreate(m) \/ MessageUpdate(m) \/ MessageDelete(m)
    PROVE  QInv'
<1>1. PICK c \in Channel : c = In[m]
    BY ConstantsAssumption
<1>2. messages[c] \in Seq(Message)
    BY DEF IInv, GatewayOK
<1>3. PICK add : add = "MessageAdd"
    OBVIOUS
<1>4. PICK remove : remove = "MessageRemove"
    OBVIOUS
<1>5. CASE MessageCreate(m)
    <2>1. PICK list : list = Append(messages[c], m)
        OBVIOUS
    <2>2. MessageEvent(c, list, add, m) /\ used \subseteq used'
        BY <1>1, <1>3, <1>5, <2>1 DEF MessageCreate
    <2>3. Contains(m, list) /\ \A k : Contains(k, messages[c]) => Contains(k, list)
        BY <1>2, <2>1, AppendContains
    <2> QED  BY <1>3, <2>2, <2>3, MessageEventQ
<1>6. CASE MessageUpdate(m)
    <2>1. /\ MessageEvent(c, messages[c], add, m) /\ used \subseteq used'
          /\ Contains(m, messages[c])
        BY <1>1, <1>3, <1>6 DEF MessageUpdate
    <2> QED  BY <1>3, <2>1, MessageEventQ
<1>7. CASE MessageDelete(m)
    <2>1. PICK list : list = Without(m, messages[c])
        OBVIOUS
    <2>2. MessageEvent(c, list, remove, m) /\ used \subseteq used'
        BY <1>1, <1>4, <1>7, <2>1 DEF MessageDelete
    <2>3. \A k : Contains(k, messages[c]) => Contains(k, list) \/ (remove = "MessageRemove" /\ k = m)
        BY <1>2, <1>4, <2>1, WithoutContains
    <2>4. remove # "MessageAdd"
        BY <1>4
    <2> QED  BY <1>4, <2>2, <2>3, <2>4, MessageEventQ
<1> QED  BY <1>5, <1>6, <1>7

-----------------------------------------------------------------------------
(* The theorems about what is cached *)

LEMMA ConnectedNext ==
    ASSUME Connected, [Next]_vars
    PROVE  Connected'
<1>1. ASSUME NEW p \in Proc, Methods(p) PROVE Connected'
    <2>1. UNCHANGED gateway
        BY <1>1 DEF Methods, Look, GuildAdd, GuildRemove, MemberCount, MemberAdd, MemberRemove,
           RoleAdd, RoleRemove, EmojiAdd, PresenceRemove, voiceStateUpdate, SetEmojis, SetItems,
           PresenceAdd, ChannelAdd, ChannelRemove, ThreadListSync, ThreadMembersUpdate,
           ThreadMemberUpdate, MessageAdd, MessageRemove, onReady
    <2> QED  BY <2>1 DEF gateway, Connected
<1>2. ASSUME NEW g \in Guild, GuildEvents(g) PROVE Connected'
    <2>1. CASE BotJoins(g) \/ GuildCreate(g) \/ GuildDelete(g)
        BY <2>1 DEF BotJoins, GuildCreate, GuildDelete, Connected
    <2>2. CASE \E rec, ops : GuildEvent(g, rec, ops)
        BY <2>2 DEF GuildEvent, Connected
    <2>3. (BotJoins(g) \/ GuildCreate(g) \/ GuildDelete(g)) \/ \E rec, ops : GuildEvent(g, rec, ops)
        BY <1>2 DEF GuildEvents, GuildUpdate, GuildEmojisUpdate, GuildMemberAdd, GuildMemberRemove,
           GuildMemberUpdate, PresenceUpdate, GuildRoleCreate, GuildRoleDelete, VoiceStateUpdate,
           ThreadListSyncEvent, GuildChange, MemberEvent
    <2> QED  BY <2>1, <2>2, <2>3
<1>3. CASE ChannelEvents
    <2>1. UNCHANGED <<heard, online>>
        BY <1>3 DEF ChannelEvents, ChannelCreate, ChannelDelete, ThreadUpdate, ThreadDelete,
           ThreadMemberEvent, ThreadMembersEvent, PrivateChannel, MessageCreate, MessageUpdate,
           MessageDelete, MessageEvent, GuildChange, GuildEvent
    <2> QED  BY <2>1 DEF Connected
<1>4. CASE Ready \/ SessionLost
    BY <1>4 DEF Ready, SessionLost, Connected
<1>5. ASSUME NEW p \in Program, ProgramCalls(p) PROVE Connected'
    BY <1>5 DEF ProgramCalls, Calls, gateway, Connected
<1>6. CASE UNCHANGED vars
    BY <1>6 DEF vars, gateway, Connected
<1> QED  BY <1>1, <1>2, <1>3, <1>4, <1>5, <1>6 DEF Next, Gateway

LEMMA QInvInit ==
    ASSUME Init
    PROVE  QInv /\ Stored /\ Connected
<1>1. /\ channelMap = [c \in Channel |-> None] /\ todo = [p \in Proc |-> <<>>]
      /\ looked = [p \in Proc |-> "no"] /\ heard = {} /\ torn = {}
      /\ truth = [g \in Guild |-> [NewGuild EXCEPT !.channels = {c \in used : Home[c] = g}]]
    BY DEF Init
<1>2. loop \in Proc /\ \A p \in Program : p \in Proc
    BY DEF Proc
<1>3. Alone
    BY <1>1, <1>2 DEF Alone
<1>4. Due(FirstCall) /\ ThenDue
    <2>1. FirstCall = NoCall
        BY <1>1, <1>2 DEF FirstCall
    <2> QED  BY <1>1, <1>2, <2>1, Nothing DEF Due, ThenDue, GuildCallOps
<1>5. Given
    <2>1. ASSUME NEW c \in Text, c \in truth[Home[c]].channels PROVE c \in used
        <3>1. PICK S : S = {d \in used : Home[d] = Home[c]}
            OBVIOUS
        <3>2. truth[Home[c]] = [NewGuild EXCEPT !.channels = S]
            BY <1>1, <3>1, ConstantsAssumption
        <3>3. truth[Home[c]].channels = S
            BY <3>2 DEF NewGuild
        <3> QED  BY <2>1, <3>1, <3>3
    <2>2. ASSUME NEW t \in Thread PROVE truth[Home[t]].threads = {}
        <3>1. PICK S : S = {d \in used : Home[d] = Home[t]}
            OBVIOUS
        <3>2. truth[Home[t]] = [NewGuild EXCEPT !.channels = S]
            BY <1>1, <3>1, ConstantsAssumption
        <3> QED  BY <3>2 DEF NewGuild
    <2> QED  BY <1>1, <2>1, <2>2 DEF Given, HasChannel, Channel
<1>6. Stored /\ Connected
    BY <1>1 DEF Stored, HasChannel, Connected
<1> QED  BY <1>1, <1>3, <1>4, <1>5, <1>6 DEF QInv

LEMMA QInvNext ==
    ASSUME IInv, Known, QInv, Stored, Connected, [Next]_vars
    PROVE  QInv'
<1>1. ASSUME NEW p \in Proc, Methods(p) PROVE QInv'
    BY <1>1, MethodsQ
<1>2. CASE Gateway /\ calls # 0
    <2>1. \E hears, ops : Tell(hears, ops)
        <3>1. ASSUME NEW g \in Guild, GuildEvents(g) PROVE \E hears, ops : Tell(hears, ops)
            BY <3>1, Zenon DEF GuildEvents, BotJoins, GuildCreate, GuildDelete, GuildUpdate,
               GuildEmojisUpdate, GuildMemberAdd, GuildMemberRemove, GuildMemberUpdate,
               PresenceUpdate, GuildRoleCreate, GuildRoleDelete, VoiceStateUpdate,
               ThreadListSyncEvent, GuildChange, MemberEvent, GuildEvent
        <3>2. ASSUME NEW c, ChannelCreate(c) \/ ChannelDelete(c) PROVE \E hears, ops : Tell(hears, ops)
            BY <3>2, Zenon DEF ChannelCreate, ChannelDelete, GuildChange, GuildEvent
        <3>3. ASSUME NEW t, \/ \E archived : ThreadUpdate(t, archived)
                            \/ ThreadDelete(t) \/ ThreadMemberEvent(t)
                            \/ \E added, removed : ThreadMembersEvent(t, added, removed)
              PROVE  \E hears, ops : Tell(hears, ops)
            BY <3>3, Zenon DEF ThreadUpdate, ThreadDelete, ThreadMemberEvent, ThreadMembersEvent,
               GuildChange, GuildEvent
        <3>4. ASSUME NEW c, NEW op, PrivateChannel(c, op) PROVE \E hears, ops : Tell(hears, ops)
            BY <3>4, Zenon DEF PrivateChannel
        <3>5. ASSUME NEW m, MessageCreate(m) \/ MessageUpdate(m) \/ MessageDelete(m)
              PROVE  \E hears, ops : Tell(hears, ops)
            BY <3>5, Zenon DEF MessageCreate, MessageUpdate, MessageDelete, MessageEvent
        <3>6. ChannelEvents => \E hears, ops : Tell(hears, ops)
            BY <3>2, <3>3, <3>4, <3>5, Zenon DEF ChannelEvents
        <3>7. Ready \/ SessionLost => \E hears, ops : Tell(hears, ops)
            BY Zenon DEF Ready, SessionLost
        <3> QED  BY <1>2, <3>1, <3>6, <3>7, Zenon DEF Gateway
    <2>2. UNCHANGED calls
        BY <2>1 DEF Tell
    <2> QED  BY <1>2, <2>2 DEF QInv
<1>3. CASE Gateway /\ calls = 0
    <2>1. ASSUME NEW g \in Guild, GuildEvents(g) PROVE QInv'
        BY <1>3, <2>1, GuildLifeQ, GuildUpdateQ, ItemEventsQ, MemberComesQ, MemberGoesQ,
           MemberNewsQ, ThreadListSyncEventQ DEF GuildEvents
    <2>2. CASE ChannelEvents
        <3>1. ASSUME NEW c \in Text, ChannelCreate(c) \/ ChannelDelete(c) PROVE QInv'
            <4>1. CASE ChannelCreate(c)
                BY <1>3, <3>1, <4>1, ChannelComesQ
            <4>2. CASE ChannelDelete(c)
                BY <1>3, <3>1, <4>2, ChannelGoesQ
            <4> QED  BY <3>1, <4>1, <4>2
        <3>2. ASSUME NEW t \in Thread, ThreadDelete(t) PROVE QInv'
            BY <1>3, <3>2, ThreadGoesQ
        <3>3. ASSUME NEW t \in Thread, NEW archived \in BOOLEAN, ThreadUpdate(t, archived) PROVE QInv'
            BY <1>3, <3>3, ThreadUpdateQ
        <3>4. ASSUME NEW t \in Thread,
                     \/ ThreadMemberEvent(t)
                     \/ \E u \in User : ThreadMembersEvent(t, {u}, {}) \/ ThreadMembersEvent(t, {}, {u})
              PROVE  QInv'
            BY <1>3, <3>4, ThreadMemberEventsQ
        <3>5. ASSUME NEW c \in Private, NEW op \in {"ChannelAdd", "ChannelRemove"}, PrivateChannel(c, op)
              PROVE  QInv'
            BY <1>3, <3>5, PrivateChannelQ
        <3>6. ASSUME NEW m \in Message, MessageCreate(m) \/ MessageUpdate(m) \/ MessageDelete(m)
              PROVE  QInv'
            BY <1>3, <3>6, MessageEventsQ
        <3> QED  BY <2>2, <3>1, <3>2, <3>3, <3>4, <3>5, <3>6, Zenon DEF ChannelEvents
    <2>3. CASE Ready \/ SessionLost
        BY <1>3, <2>3, SessionQ
    <2> QED  BY <1>3, <2>1, <2>2, <2>3 DEF Gateway
<1>4. ASSUME NEW p \in Program, ProgramCalls(p) PROVE QInv'
    <2>1. \E op, at, arg : Calls(p, op, at, arg)
        BY <1>4, Zenon DEF ProgramCalls
    <2>2. calls' = calls + 1
        BY <2>1 DEF Calls
    <2>3. calls \in Nat
        BY ConstantsAssumption DEF IInv, BoundsOK
    <2>4. calls' # 0
        BY <2>2, <2>3
    <2> QED  BY <2>4 DEF QInv
<1>5. CASE UNCHANGED vars
    <2>1. UNCHANGED <<guildMap, memberMap, channelMap, todo, looked, truth, messages, used,
                      heard, told, calls, torn>>
        BY <1>5 DEF vars, cache, gateway
    <2>2. UNCHANGED <<FirstCall, LastCall>>
        BY <2>1 DEF FirstCall, LastCall
    <2>3. calls = 0 => Alone' /\ Given' /\ ThenDue'
        BY <2>1, <2>2 DEF QInv, Alone, Given, ThenDue, HasChannel
    <2>4. calls = 0 => Due(FirstCall)'
        BY <2>1, <2>2 DEF QInv, Due, Whole
    <2>5. \A h : Fresh(h) => Fresh(h)'
        BY <2>1 DEF Fresh, Whole
    <2>6. \A h : RightNow(h) => RightNow(h)'
        BY <2>1, <2>2 DEF RightNow, Right, HasGuild, HasChannel, CountRight, MembersRight,
           ChannelsRight, ThreadsRight, ItemsRight, MessagesRight, ListOf
    <2> QED  BY <2>1, <2>3, <2>4, <2>5, <2>6 DEF QInv
<1> QED  BY <1>1, <1>2, <1>3, <1>4, <1>5 DEF Next

LEMMA QInvHolds == Spec => [](IInv /\ Known /\ QInv /\ Stored /\ Connected)
<1>1. Init => IInv /\ Known /\ QInv /\ Stored /\ Connected
    BY InitInv, InitKnown, QInvInit
<1>2. IInv /\ Known /\ QInv /\ Stored /\ Connected /\ [Next]_vars
          => (IInv /\ Known /\ QInv /\ Stored /\ Connected)'
    BY NextInv, NextKnown, QInvNext, StoredNext, ConnectedNext
<1> QED  BY <1>1, <1>2, PTL DEF Spec

\* While the program leaves the cache to the events, what it has of a guild the
\* client hears of is as at the gateway, whatever sessions were lost and whatever
\* the maps have kept from before: the guild is found, and in Guilds unless it is
\* left over; the number of its members is right, those an event named are cached
\* and nobody else but members; its channels and other lists are the guild's; and
\* an active thread is found and, unless it is left over, listed, while a listed one
\* that has ended is archived or its channel was deleted.
THEOREM CurrentHolds == Spec => []Current
<1>1. ASSUME IInv, Known, QInv PROVE Current
    <2>1. SUFFICES ASSUME calls = 0, todo[loop] = <<>>, NEW g \in heard
                   PROVE  /\ HasGuild(g) /\ g \in listed \cup leftOver
                          /\ LET rec == guildMap[g]  now == truth[g] IN
                             /\ rec.count = Cardinality(now.members) + 1
                             /\ "members" \in Track =>
                                   /\ told[g] \subseteq rec.members /\ rec.members \subseteq now.members
                                   /\ memberMap[g] = rec.members
                             /\ "channels" \in Track => rec.channels = now.channels
                             /\ "threads" \in Track =>
                                   /\ \A t \in rec.threads \ now.threads :
                                         channelMap[t].archived \/ Parent[t] \notin now.channels
                                   /\ \A t \in now.threads :
                                         /\ HasChannel(t) /\ ~channelMap[t].archived
                                         /\ t \in rec.threads \cup leftOver
                             /\ "items" \in Track => rec.items = now.items
        BY DEF Current
    <2>2. Right(g, NoCall, NoCall) /\ g \in Guild
        BY <1>1, <2>1, RightBefore DEF IInv, GatewayOK
    <2>3. /\ HasGuild(g) /\ guildMap[g].count = Cardinality(truth[g].members) + 1
          /\ g \in listed \cup leftOver
        BY <1>1, <2>2, Nothing DEF Right, CountRight, Known, GuildsKnown
    <2>4. "members" \in Track =>
              /\ told[g] \subseteq guildMap[g].members /\ guildMap[g].members \subseteq truth[g].members
              /\ memberMap[g] = guildMap[g].members
        BY <2>2, Nothing DEF Right, MembersRight
    <2>5. "channels" \in Track => guildMap[g].channels = truth[g].channels
        BY <2>2, Nothing DEF Right, ChannelsRight
    <2>6. ASSUME "threads" \in Track
          PROVE  /\ \A t \in guildMap[g].threads \ truth[g].threads :
                       channelMap[t].archived \/ Parent[t] \notin truth[g].channels
                 /\ \A t \in truth[g].threads :
                       /\ HasChannel(t) /\ ~channelMap[t].archived
                       /\ t \in guildMap[g].threads \cup leftOver
        <3>1. /\ \A t \in guildMap[g].threads :
                    \/ channelMap[t].archived \/ t \in truth[g].threads
                    \/ Parent[t] \notin truth[g].channels
              /\ \A t \in truth[g].threads : HasChannel(t) /\ ~channelMap[t].archived
            BY <2>2, <2>6, Nothing DEF Right, ThreadsRight
        <3>2. ASSUME NEW t \in truth[g].threads PROVE t \in guildMap[g].threads \cup leftOver
            <4>1. t \in Thread /\ t \notin Text /\ Home[t] = g
                BY <1>1, <2>2, <3>2, ConstantsAssumption DEF IInv, GatewayOK, GuildRecord, Homes, ListOf
            <4>2. g \notin torn
                BY <1>1, <2>1 DEF QInv, Alone
            <4>3. t \in ListOf(guildMap[g]) \cup leftOver
                BY <1>1, <2>3, <3>1, <4>1, <4>2 DEF Known, ChannelsKnown
            <4>4. guildMap[g].channels \in SUBSET Text
                BY <1>1, <2>2, <2>3, Entries DEF IInv, GuildRecord
            <4> QED  BY <4>1, <4>3, <4>4 DEF ListOf
        <3> QED  BY <3>1, <3>2
    <2>7. "items" \in Track => guildMap[g].items = truth[g].items
        BY <2>2, Nothing DEF Right, ItemsRight
    <2> QED  BY <2>3, <2>4, <2>5, <2>6, <2>7
<1>2. IInv /\ Known /\ QInv => Current
    BY <1>1
<1> QED  BY <1>2, QInvHolds, PTL

\* No channel has more than MaxMessageCount messages or one of them twice, and
\* with the program as above no deleted message is left in a channel or thread
\* that a guild the client hears of lists, unless the thread's channel was deleted.
THEOREM MessagesKeptHolds == Spec => []MessagesKept
<1>1. ASSUME IInv, QInv, Stored PROVE MessagesKept
    <2>1. SUFFICES ASSUME NEW c \in Channel, HasChannel(c)
                   PROVE  LET list == channelMap[c].messages IN
                          /\ Len(list) <= MaxMessageCount
                          /\ \A i, j \in DOMAIN list : list[i] = list[j] => i = j
                          /\ calls = 0 /\ todo[loop] = <<>> /\ c \notin Private /\ Home[c] \in heard
                             /\ c \in guildMap[Home[c]].channels \cup guildMap[Home[c]].threads
                             /\ (c \in Thread => Parent[c] \in truth[Home[c]].channels) =>
                                \A i \in DOMAIN list : Contains(list[i], messages[c])
        BY DEF MessagesKept
    <2>2. PICK list : list = channelMap[c].messages
        OBVIOUS
    <2>3. Tidy(list)
        BY <1>1, <2>1, <2>2 DEF Stored
    <2>4. list \in Seq(Message)
        BY <1>1, <2>1, <2>2, Entries DEF IInv, ChannelRecord
    <2>5. ASSUME calls = 0, todo[loop] = <<>>, Home[c] \in heard,
                 c \in guildMap[Home[c]].channels \cup guildMap[Home[c]].threads,
                 NEW i \in DOMAIN list
          PROVE  Contains(list[i], messages[c])
        <3>1. PICK g : g = Home[c]
            OBVIOUS
        <3>2. Right(g, NoCall, NoCall)
            BY <1>1, <2>5, <3>1, RightBefore
        <3>3. list[i] \in Message /\ Contains(list[i], list)
            BY <2>4, <2>5 DEF Contains
        <3>4. c \in ListOf(guildMap[g])
            BY <2>5, <3>1 DEF ListOf
        <3> QED  BY <2>2, <3>2, <3>3, <3>4, Nothing DEF Right, MessagesRight
    <2> QED  BY <2>2, <2>3, <2>5 DEF Tidy
<1>2. IInv /\ QInv /\ Stored => MessagesKept
    BY <1>1
<1> QED  BY <1>2, QInvHolds, PTL
=============================================================================
