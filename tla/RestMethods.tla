----------------------------- MODULE RestMethods -----------------------------
(***************************************************************************)
(* Goroutines of the program that call the methods of Endpoints at the     *)
(* same time.  A method makes its requests one after the other; each takes *)
(* its key's bucket (ratelimit.go: LockBucket), sends, and gives the       *)
(* bucket back with the answer (Release).  RateLimiter has what happens    *)
(* inside a bucket; here the question is which requests share one.         *)
(***************************************************************************)
EXTENDS Endpoints, FiniteSets, SequencesExt

CONSTANTS
    Caller,     \* goroutines of the program
    Id,         \* values of arguments
    NoRequest   \* a caller that has none under way

VARIABLE call

vars == <<call>>

(***************************************************************************)
(* A call: the methods still to be carried out, the request under way,     *)
(* whether it was sent (the bucket is held from then to the answer),       *)
(* whether an earlier request of the call changed something on the server, *)
(* and how it ended.  `embeds` says which of Embed and Embeds the program's *)
(* MessageSend or MessageEdit has set, `reused` whether the program gave   *)
(* it to a method before; the program sets one of the two at most.         *)
(***************************************************************************)
Idle ==
    [todo |-> <<>>, request |-> NoRequest, sent |-> FALSE, wrote |-> FALSE, result |-> "none",
     embeds |-> {}, reused |-> FALSE]

\* Methods that are given a message, and change it.
TakesMessage == {"ChannelMessageSendComplex", "ChannelMessageEditComplex", "ForumThreadStartComplex"}

Callable == Ops \ Internal

\* What the limit of a request depends on as Discord counts it.
Major == {"guildID", "channelID", "webhookID", "token", "appID"}

Segments(seq) == {seq[i] : i \in DOMAIN seq}

\* Arguments are ids, tokens and codes: none is one of the words an address is made
\* of, nor empty.  ("@me" for the program's own id is left out: GuildMemberNickname,
\* which sends it to another address, has a row for it; a key contains it only for the
\* user of a voice state or the member of a thread, and what shares the key of
\* ThreadJoin then goes to the address of ThreadJoin.)
ASSUME IdAssumption ==
    Id \cap (Param \cup UNION {Segments(m.path) \cup Segments(m.key) : m \in Methods}) = {}

\* Mutant of Fill: the key is the pattern itself.
FillNothing(seq, args) == seq

\* A path or key with its arguments filled in (the functions of endpoints.go).
Fill(seq, args) == [i \in DOMAIN seq |-> IF seq[i] \in DOMAIN args THEN args[seq[i]] ELSE seq[i]]

Request(m, args) ==
    [op |-> m.op, method |-> m.method, path |-> m.path, key |-> Fill(m.key, args),
     major |-> [p \in Segments(m.path) \cap Major |-> args[p]]]

Init == call = [c \in Caller |-> Idle]

\* The program calls a method.
Enter(c, op) ==
    /\ call[c].todo = <<>> /\ call[c].request = NoRequest
    /\ call' = [call EXCEPT ![c] = [Idle EXCEPT !.todo = <<op>>]]

\* The program calls a method with a new message.
EnterWithMessage(c, op) ==
    /\ call[c].todo = <<>> /\ call[c].request = NoRequest
    /\ \E embeds \in {{"Embed"}, {"Embeds"}} :
           call' = [call EXCEPT ![c] = [Idle EXCEPT !.todo = <<op>>, !.embeds = embeds]]

\* The program gives the message of its last call to a method again, to send it to
\* another channel or because the call failed.
EnterAgain(c) ==
    /\ call[c].todo = <<>> /\ call[c].request = NoRequest /\ call[c].embeds # {}
    /\ \E op \in TakesMessage :
           call' = [call EXCEPT ![c] =
                       [Idle EXCEPT !.todo = <<op>>, !.embeds = call[c].embeds, !.reused = TRUE]]

\* Mutant of BothEmbeds: refuses a message with any embed.
AnyEmbed(c) == call[c].embeds # {}

\* A message with Embed and Embeds is refused, whoever set them.
BothEmbeds(c) == call[c].embeds = {"Embed", "Embeds"}

\* Embed becomes the only one of Embeds, in the program's own struct.
Normalised(embeds) == IF "Embed" \in embeds THEN embeds \cup {"Embeds"} ELSE embeds

\* Mutant of Delegate: the last call first.
DelegateReversed(c) ==
    /\ call[c].request = NoRequest /\ call[c].todo # <<>>
    /\ \E m \in Named[Head(call[c].todo)] :
        /\ m.path = <<>>
        /\ call' = [call EXCEPT ![c].todo = Reverse(m.calls) \o Tail(@)]

\* The method calls other methods; with none to call it returns.
Delegate(c) ==
    /\ call[c].request = NoRequest /\ call[c].todo # <<>>
    /\ \E m \in Named[Head(call[c].todo)] :
        /\ m.path = <<>>
        /\ LET todo == m.calls \o Tail(call[c].todo)
           IN call' = [call EXCEPT ![c].todo = todo, ![c].result = IF todo = <<>> THEN "ok" ELSE "none"]

\* The method refuses its arguments, or what an earlier request returned.
Refuse(c) ==
    /\ call[c].request = NoRequest /\ call[c].todo # <<>>
    /\ Head(call[c].todo) \in Checked /\ ~BothEmbeds(c)
    /\ call' = [call EXCEPT ![c].todo = <<>>, ![c].result = "error"]

RefuseEmbeds(c) ==
    /\ call[c].request = NoRequest /\ call[c].todo # <<>>
    /\ Head(call[c].todo) \in TakesMessage /\ BothEmbeds(c)
    /\ call' = [call EXCEPT ![c].todo = <<>>, ![c].result = "embeds"]

\* RequestWithBucketID, RequestRaw: the request waits for its bucket.
Ask(c) ==
    /\ call[c].request = NoRequest /\ call[c].todo # <<>>
    /\ \E m \in Named[Head(call[c].todo)] :
        /\ m.path # <<>>
        /\ ~(m.op \in TakesMessage /\ BothEmbeds(c))
        /\ \E args \in [(Segments(m.path) \cup Segments(m.key)) \cap Param -> Id] :
               call' = [call EXCEPT ![c].request = Request(m, args), ![c].todo = Tail(@),
                                    ![c].embeds = Normalised(@)]

Held(key) == \E c \in Caller : call[c].sent /\ call[c].request.key = key

LockBucket(c) ==
    /\ call[c].request # NoRequest /\ ~call[c].sent
    /\ ~Held(call[c].request.key)
    /\ call' = [call EXCEPT ![c].sent = TRUE]

Release(c) == [call EXCEPT ![c].request = NoRequest, ![c].sent = FALSE]

Succeed(c) ==
    /\ call[c].sent
    /\ call' = [Release(c) EXCEPT
                   ![c].wrote = @ \/ call[c].request.method # "GET",
                   ![c].result = IF call[c].todo = <<>> THEN "ok" ELSE "none"]

\* The request failed: the call returns its error and makes no further request.
\* (GuildEdit drops the error of VoiceRegions; it then knows no region and
\* refuses the caller's, which ends the call as well.)
Fail(c) ==
    /\ call[c].sent
    /\ call' = [Release(c) EXCEPT ![c].todo = <<>>, ![c].result = "error"]

Next ==
    \E c \in Caller :
        \/ \E op \in Callable : Enter(c, op)
        \/ \E op \in TakesMessage : EnterWithMessage(c, op)
        \/ EnterAgain(c)
        \/ Delegate(c)
        \/ Refuse(c)
        \/ RefuseEmbeds(c)
        \/ Ask(c)
        \/ LockBucket(c)
        \/ Succeed(c)
        \/ Fail(c)

Spec == Init /\ [][Next]_vars

-----------------------------------------------------------------------------
(***************************************************************************)
(* Properties                                                              *)
(***************************************************************************)
\* Type correctness: a caller that sent something has a request under way and
\* every method still to be carried out exists.
TypeOK ==
    \A c \in Caller :
        /\ Segments(call[c].todo) \subseteq Ops
        /\ call[c].sent => call[c].request # NoRequest
        /\ call[c].request # NoRequest =>
               /\ call[c].request.op \in Ops
               /\ Segments(call[c].request.key) \cap Param = {}
        /\ call[c].result \in {"none", "ok", "error", "embeds"}
        /\ call[c].embeds \subseteq {"Embed", "Embeds"}

\* Methods whose key names one message, user, command, rule ... or holds a query:
\* the limiter counts every such object by itself and keeps a bucket for each.
PerObject == {
    "GuildBan", "GuildEmoji", "ApplicationEmoji", "GuildTemplate", "GuildCreateWithTemplate",
    "ChannelMessagesPinned", "ChannelMessageCrosspost", "webhookExecute", "WebhookMessageEdit",
    "MessageReactionsRemoveAll", "MessageReactionsRemoveEmoji", "MessageThreadStartComplex",
    "ThreadMemberAdd", "ThreadMemberRemove", "ThreadMember", "ThreadMembers", "ThreadsArchived",
    "ThreadsPrivateArchived", "ThreadsPrivateJoinedArchived", "ApplicationCommandEdit",
    "ApplicationCommandDelete", "ApplicationCommand", "ApplicationCommandPermissions",
    "ApplicationCommandPermissionsEdit", "InteractionRespond", "GuildScheduledEvent",
    "GuildScheduledEventEdit", "GuildScheduledEventDelete", "GuildScheduledEventUsers",
    "AutoModerationRule", "AutoModerationRuleEdit", "AutoModerationRuleDelete", "PollAnswerVoters",
    "PollExpire", "Subscriptions", "Subscription", "UserVoiceState"}

\* Two requests of one method for the same guild, channel, webhook and application
\* are never under way together: what the first answer says about the limit is
\* known before the second goes out.
Together ==
    \A c, d \in Caller :
        c # d /\ call[c].sent /\ call[d].sent
            /\ call[c].request.op = call[d].request.op
            /\ call[c].request.path = call[d].request.path
            /\ call[c].request.major = call[d].request.major
        => call[c].request.op \in PerObject

\* Requests of different kinds that share a key.
SharedKey == {
    {"User", "UserUpdate"},
    {"MessageReactionAdd", "MessageReactionRemove", "MessageReactions"},
    {"GuildMember", "GuildMemberAdd", "GuildMemberDeleteWithReason", "GuildMemberEdit",
     "GuildMemberMove", "GuildMemberNickname", "GuildMemberMute", "GuildMemberTimeout",
     "GuildMemberDeafen"},
    {"GuildEmojis", "GuildEmojiCreate", "GuildEmojiEdit", "GuildEmojiDelete"},
    {"ApplicationEmojis", "ApplicationEmojiCreate", "ApplicationEmojiEdit", "ApplicationEmojiDelete"},
    {"WebhookWithToken", "WebhookEditWithToken", "WebhookDeleteWithToken",
     "WebhookMessage", "WebhookMessageEdit", "WebhookMessageDelete"}}

\* Methods whose key leaves the webhook, or the OAuth2 application, out: the
\* requests for all of them share it.
AnyOfThem == {
    "Webhook", "WebhookEdit", "WebhookDelete", "WebhookWithToken", "WebhookEditWithToken",
    "WebhookDeleteWithToken", "WebhookMessage", "WebhookMessageEdit", "WebhookMessageDelete",
    "Application", "ApplicationUpdate", "ApplicationDelete", "ApplicationAssets", "ApplicationBotCreate"}

\* Requests that have nothing to do with each other do not wait for each other: one
\* that waits for another's bucket goes to the same address or one listed with it,
\* and to the same guild, channel and application.
Apart ==
    \A c, d \in Caller :
        LET r == call[c].request  q == call[d].request
        IN  c # d /\ r # NoRequest /\ call[d].sent /\ r.key = q.key
            => /\ r.path = q.path \/ \E S \in SharedKey : {r.op, q.op} \subseteq S
               /\ r.major = q.major \/ {r.op, q.op} \subseteq AnyOfThem

\* The custom limit "//reactions//" of ratelimit.go:37 covers adding, removing and
\* listing reactions, of every emoji and message of a channel, and nothing else.
ReactionsLimited ==
    \A c \in Caller :
        call[c].request # NoRequest =>
            (call[c].request.op \in {"MessageReactionAdd", "MessageReactionRemove", "MessageReactions"}
             <=> IsSuffix(<<Empty, "reactions", Empty, Empty>>, call[c].request.key))

\* A call that returns an error has changed nothing before the request that failed:
\* no method writes and then makes another request that can fail.
ErrorsChangeNothing == \A c \in Caller : call[c].result = "error" => ~call[c].wrote

\* A message the program built for this call is never refused as one with both
\* Embed and Embeds; only one it gave to a method before may be (the methods set
\* Embeds in it and do not clear Embed).
NewMessageAccepted == \A c \in Caller : call[c].result = "embeds" => call[c].reused

=============================================================================
