----------------------------- MODULE RestProofs -----------------------------
(***************************************************************************)
(* The properties of RestMethods, for any number of goroutines and any     *)
(* arguments: first what the table of Endpoints says of every one of its   *)
(* rows, then what follows for the requests made of them, then the calls.  *)
(* At the end, theorems about Permissions.                                 *)
(***************************************************************************)
EXTENDS RestMethods, Permissions, Integers, SequenceTheorems, TLAPS

-----------------------------------------------------------------------------
(***************************************************************************)
(* What is true of each row of the table.                                  *)
(***************************************************************************)
\* What stands after a segment that is not an argument: the address names its
\* collections, so the segment before an argument tells which argument it is.
After(segment) ==
    CASE segment \in {"guilds", "icons", "splashes"} -> "guildID"
      [] segment \in {"channels", "stage-instances"} -> "channelID"
      [] segment = "applications" -> "appID"
      [] segment = "webhooks" -> "webhookID"
      [] segment = "interactions" -> "interactionID"
      [] segment \in {"members", "bans", "voice-states", "avatars"} -> "userID"
      [] segment \in {"messages", "pins", "polls"} -> "messageID"
      [] segment \in {"emojis", "reactions"} -> "emojiID"
      [] segment = "roles" -> "roleID"
      [] segment = "templates" -> "templateCode"
      [] segment = "integrations" -> "integrationID"
      [] segment = "permissions" -> "targetID"
      [] segment = "invites" -> "inviteID"
      [] segment = "thread-members" -> "memberID"
      [] segment = "commands" -> "cmdID"
      [] segment = "scheduled-events" -> "eventID"
      [] segment = "rules" -> "ruleID"
      [] segment = "answers" -> "answerID"
      [] segment = "entitlements" -> "entitlementID"
      [] segment = "skus" -> "skuID"
      [] segment = "subscriptions" -> "subscriptionID"
      [] segment = "users" -> "@me"
      [] segment = "?" -> "query"
      [] OTHER -> "hash"

\* Paths and keys are sequences.
PathSequence(m) == m.path = [i \in DOMAIN m.path |-> m.path[i]]

KeySequence(m) ==
    /\ m.key = [i \in DOMAIN m.key |-> m.key[i]]
    /\ DOMAIN m.key = 1..Len(m.key)
    /\ Len(m.key) \in 0..9

\* An argument in a key is the one its collection has, or a token.
NamesFollow(m) ==
    \A i \in DOMAIN m.key :
        m.key[i] \in Param =>
            i # 1 /\ m.key[i] = (IF m.key[i-1] \in Param THEN "token" ELSE After(m.key[i-1]))

\* The keys under which requests to several addresses are counted, by what tells
\* them from all others.
ForUser(key)              == Len(key) = 2 /\ key[1] = "users"
ForReactions(key)         == Len(key) = 7 /\ key[5] = "reactions"
ForMembers(key) ==
    Len(key) = 4 /\ key[1] = "guilds" /\ key[3] = "members" /\ key[4] = Empty
ForGuildEmojis(key)       == Len(key) = 3 /\ key[1] = "guilds" /\ key[3] = "emojis"
ForApplicationEmojis(key) == Len(key) = 3 /\ key[1] = "applications" /\ key[3] = "emojis"
ForToken(key)             == Len(key) = 3 /\ key[1] = "webhooks" /\ key[3] = Empty

UserSharers == {"User", "UserUpdate"}
ReactionSharers == {"MessageReactionAdd", "MessageReactionRemove", "MessageReactions"}
MemberSharers == {
    "GuildMember", "GuildMemberAdd", "GuildMemberDeleteWithReason", "GuildMemberEdit", "GuildMemberMove",
    "GuildMemberNickname", "GuildMemberMute", "GuildMemberTimeout", "GuildMemberDeafen"}
GuildEmojiSharers == {"GuildEmojis", "GuildEmojiCreate", "GuildEmojiEdit", "GuildEmojiDelete"}
ApplicationEmojiSharers ==
    {"ApplicationEmojis", "ApplicationEmojiCreate", "ApplicationEmojiEdit", "ApplicationEmojiDelete"}
TokenSharers == {
    "WebhookWithToken", "WebhookEditWithToken", "WebhookDeleteWithToken",
    "WebhookMessage", "WebhookMessageEdit", "WebhookMessageDelete"}

\* Only the methods of one set of SharedKey have such a key.
OnlySharers(m) ==
    /\ ForUser(m.key) => m.op \in UserSharers
    /\ ForReactions(m.key) => m.op \in ReactionSharers
    /\ ForMembers(m.key) => m.op \in MemberSharers
    /\ ForGuildEmojis(m.key) => m.op \in GuildEmojiSharers
    /\ ForApplicationEmojis(m.key) => m.op \in ApplicationEmojiSharers
    /\ ForToken(m.key) => m.op \in TokenSharers

Shares(key) ==
    \/ ForUser(key) \/ ForReactions(key) \/ ForMembers(key)
    \/ ForGuildEmojis(key) \/ ForApplicationEmojis(key) \/ ForToken(key)

\* The address of the requests counted under a key: what it leaves empty follows
\* from the segment before.
Address(key, i) == IF i # 1 /\ key[i] = Empty THEN After(key[i-1]) ELSE key[i]

GlobalCommands == <<"applications", "appID", "commands">>
GuildCommands  == <<"applications", "appID", "guilds", "guildID", "commands">>

\* Every other key determines the address.
AddressFollows(m) ==
    m.path # <<>> /\ ~Shares(m.key) =>
        IF m.key[1] = "GET"
        THEN m.path = IF Len(m.key) = 4 THEN GlobalCommands ELSE GuildCommands
        ELSE /\ DOMAIN m.path = DOMAIN m.key
             /\ \A i \in DOMAIN m.key : m.path[i] = Address(m.key, i)

\* The keys that leave out a webhook or an OAuth2 application.
ForAny(key) ==
    \/ Len(key) = 2 /\ key[1] = "webhooks"
    \/ ForToken(key)
    \/ Len(key) \in {3, 4} /\ key[1] = "oauth2"

\* Every other key names the guild, channel, webhook and application of the address.
MajorKept(m) ==
    /\ Segments(m.key) \cap Major \subseteq Segments(m.path)
    /\ ForAny(m.key) => m.op \in AnyOfThem
    /\ ~ForAny(m.key) => Segments(m.path) \cap Major \subseteq Segments(m.key)

\* Methods whose key is not their address with segments left empty.
OwnKey == {
    "GuildMemberNickname", "WebhookMessage", "WebhookMessageDelete", "MessageReactions", "GuildEmojiEdit",
    "GuildEmojiDelete", "ApplicationEmojiEdit", "ApplicationEmojiDelete", "ApplicationCommands"}

OwnKeys(m) ==
    /\ m.op = "GuildMemberNickname" => m.key = <<"guilds", "guildID", "members", Empty>>
    /\ m.op \in {"WebhookMessage", "WebhookMessageDelete"} => m.key = <<"webhooks", Empty, Empty>>
    /\ m.op = "MessageReactions" =>
           m.key = <<"channels", "channelID", "messages", Empty, "reactions", Empty, Empty>>
    /\ m.op \in {"GuildEmojiEdit", "GuildEmojiDelete"} => m.key = <<"guilds", "guildID", "emojis">>
    /\ m.op \in {"ApplicationEmojiEdit", "ApplicationEmojiDelete"} =>
           m.key = <<"applications", "appID", "emojis">>
    /\ m.op = "ApplicationCommands" =>
           \/ m.path = GlobalCommands /\ m.key = <<"GET", "applications", "appID", "commands">>
           \/ m.path = GuildCommands
              /\ m.key = <<"GET", "applications", "appID", "guilds", "guildID", "commands">>

\* What a method leaves empty.
Dropped(op) ==
    CASE op \in {"UserUpdate", "UserChannelCreate", "UserGuilds", "GuildLeave"} -> {"@me"}
      [] op \in AnyOfThem -> {"webhookID", "token", "appID"}
      [] op = "MessageReactionAdd" -> {"messageID", "emojiID", "@me"}
      [] OTHER -> Param \ Major

\* The key of a method that is not counted by object follows from its address.
KeyFollows(m) ==
    m.path # <<>> /\ m.op \notin PerObject \cup OwnKey =>
        /\ DOMAIN m.key = DOMAIN m.path
        /\ \A i \in DOMAIN m.path : m.key[i] = IF m.path[i] \in Dropped(m.op) THEN Empty ELSE m.path[i]

\* It names no other arguments than Discord's limits depend on.
OnlyMajorInKey(m) == m.op \notin PerObject => Segments(m.key) \cap Param \subseteq Major

\* The custom limit's key is that of the three methods.
ReactionRow(m) ==
    /\ m.op \in ReactionSharers =>
           m.key = <<"channels", "channelID", "messages", Empty, "reactions", Empty, Empty>>
    /\ \A i \in DOMAIN m.key :
           m.key[i] = "reactions" /\ i + 1 \in DOMAIN m.key /\ m.key[i+1] = Empty
           => m.op \in ReactionSharers

\* What a method that makes several requests may ask for first.
GetOps == {"User", "VoiceRegions", "Guild", "Channel"}

\* Requests of those, and of methods that take a message, are the method's only one.
RequestRow(m) ==
    /\ m.op \in GetOps => m.method = "GET" /\ m.path # <<>>
    /\ m.op \in TakesMessage => m.path # <<>>
    /\ m.path # <<>> => m.key # <<>>

\* The methods another one calls.
Callees == {
    "User", "UserAvatarDecode", "VoiceRegions", "GuildEditPatch", "Guild", "GuildIconGet", "GuildSplashGet",
    "Channel", "GuildMember", "GuildBanCreateWithReason", "GuildMemberDeleteWithReason", "GuildMemberEdit",
    "GuildChannelCreateComplex", "ChannelEdit", "ChannelMessageSendComplex", "ChannelMessageSendEmbeds",
    "ChannelMessageSendEmbedsReply", "ChannelMessageEditComplex", "ChannelMessageEditEmbeds",
    "ChannelMessageDelete", "webhookExecute", "MessageThreadStartComplex", "ThreadStartComplex",
    "ForumThreadStartComplex", "WebhookMessage", "WebhookMessageEdit", "WebhookExecute",
    "WebhookMessageDelete"}

\* A method that calls several only reads before the last.
CallsRow(m) ==
    \/ m.calls = <<>>
    \/ \E op \in Callees : m.calls = <<op>>
    \/ \E get \in GetOps, op \in Callees : m.calls = <<get, op>>
    \/ \E op \in Callees : m.calls = <<"Channel", "Guild", op>>

\* Every path is a sequence.
LEMMA PathsAreSequences ==
    ASSUME NEW m \in Methods
    PROVE  PathSequence(m)
<1> USE DEF PathSequence, Sends, SendsAs, Calls, Empty
<1>1. CASE m \in UserMethods
  BY <1>1 DEF UserMethods
<1>2. CASE m \in GuildMethods
  BY <1>2 DEF GuildMethods
<1>3. CASE m \in BanAndMemberMethods
  BY <1>3 DEF BanAndMemberMethods
<1>4. CASE m \in MemberMethods
  BY <1>4 DEF MemberMethods
<1>5. CASE m \in MemberRoleMethods
  BY <1>5 DEF MemberRoleMethods
<1>6. CASE m \in ChannelListAndRoleMethods
  BY <1>6 DEF ChannelListAndRoleMethods
<1>7. CASE m \in PruneAndIntegrationMethods
  BY <1>7 DEF PruneAndIntegrationMethods
<1>8. CASE m \in ImageAuditEmojiMethods
  BY <1>8 DEF ImageAuditEmojiMethods
<1>9. CASE m \in EmojiMethods
  BY <1>9 DEF EmojiMethods
<1>10. CASE m \in TemplateUseMethods
  BY <1>10 DEF TemplateUseMethods
<1>11. CASE m \in TemplateMethods
  BY <1>11 DEF TemplateMethods
<1>12. CASE m \in ChannelMethods
  BY <1>12 DEF ChannelMethods
<1>13. CASE m \in SendMethods
  BY <1>13 DEF SendMethods
<1>14. CASE m \in EditAndPinMethods
  BY <1>14 DEF EditAndPinMethods
<1>15. CASE m \in FileAndPermissionMethods
  BY <1>15 DEF FileAndPermissionMethods
<1>16. CASE m \in InviteAndGatewayMethods
  BY <1>16 DEF InviteAndGatewayMethods
<1>17. CASE m \in WebhookMethods
  BY <1>17 DEF WebhookMethods
<1>18. CASE m \in WebhookMessageMethods
  BY <1>18 DEF WebhookMessageMethods
<1>19. CASE m \in ReactionMethods
  BY <1>19 DEF ReactionMethods
<1>20. CASE m \in ThreadStartMethods
  BY <1>20 DEF ThreadStartMethods
<1>21. CASE m \in ThreadMemberMethods
  BY <1>21 DEF ThreadMemberMethods
<1>22. CASE m \in ThreadListMethods
  BY <1>22 DEF ThreadListMethods
<1>23. CASE m \in ArchivedThreadMethods
  BY <1>23 DEF ArchivedThreadMethods
<1>24. CASE m \in CommandMethods
  BY <1>24 DEF CommandMethods
<1>25. CASE m \in CommandListMethods
  BY <1>25 DEF CommandListMethods
<1>26. CASE m \in CommandPermissionMethods
  BY <1>26 DEF CommandPermissionMethods
<1>27. CASE m \in InteractionMethods
  BY <1>27 DEF InteractionMethods
<1>28. CASE m \in StageAndScheduledEventMethods
  BY <1>28 DEF StageAndScheduledEventMethods
<1>29. CASE m \in OnboardingAndRuleMethods
  BY <1>29 DEF OnboardingAndRuleMethods
<1>30. CASE m \in RoleConnectionAndPollMethods
  BY <1>30 DEF RoleConnectionAndPollMethods
<1>31. CASE m \in EntitlementMethods
  BY <1>31 DEF EntitlementMethods
<1>32. CASE m \in OAuth2Methods
  BY <1>32 DEF OAuth2Methods
<1>33. CASE m \in PermissionMethods
  BY <1>33 DEF PermissionMethods
<1> HIDE DEF PathSequence
<1> QED
  BY <1>1, <1>2, <1>3, <1>4, <1>5, <1>6, <1>7, <1>8, <1>9, <1>10, <1>11, <1>12, <1>13, <1>14,
     <1>15, <1>16, <1>17, <1>18, <1>19, <1>20, <1>21, <1>22, <1>23, <1>24, <1>25, <1>26, <1>27,
     <1>28, <1>29, <1>30, <1>31, <1>32, <1>33 DEF Methods

\* Every key is a sequence, of at most nine segments.
LEMMA KeysAreSequences ==
    ASSUME NEW m \in Methods
    PROVE  KeySequence(m)
<1> USE DEF KeySequence, Sends, SendsAs, Calls, Empty
<1>1. CASE m \in UserMethods
  BY <1>1 DEF UserMethods
<1>2. CASE m \in GuildMethods
  BY <1>2 DEF GuildMethods
<1>3. CASE m \in BanAndMemberMethods
  BY <1>3 DEF BanAndMemberMethods
<1>4. CASE m \in MemberMethods
  BY <1>4 DEF MemberMethods
<1>5. CASE m \in MemberRoleMethods
  BY <1>5 DEF MemberRoleMethods
<1>6. CASE m \in ChannelListAndRoleMethods
  BY <1>6 DEF ChannelListAndRoleMethods
<1>7. CASE m \in PruneAndIntegrationMethods
  BY <1>7 DEF PruneAndIntegrationMethods
<1>8. CASE m \in ImageAuditEmojiMethods
  BY <1>8 DEF ImageAuditEmojiMethods
<1>9. CASE m \in EmojiMethods
  BY <1>9 DEF EmojiMethods
<1>10. CASE m \in TemplateUseMethods
  BY <1>10 DEF TemplateUseMethods
<1>11. CASE m \in TemplateMethods
  BY <1>11 DEF TemplateMethods
<1>12. CASE m \in ChannelMethods
  BY <1>12 DEF ChannelMethods
<1>13. CASE m \in SendMethods
  BY <1>13 DEF SendMethods
<1>14. CASE m \in EditAndPinMethods
  BY <1>14 DEF EditAndPinMethods
<1>15. CASE m \in FileAndPermissionMethods
  BY <1>15 DEF FileAndPermissionMethods
<1>16. CASE m \in InviteAndGatewayMethods
  BY <1>16 DEF InviteAndGatewayMethods
<1>17. CASE m \in WebhookMethods
  BY <1>17 DEF WebhookMethods
<1>18. CASE m \in WebhookMessageMethods
  BY <1>18 DEF WebhookMessageMethods
<1>19. CASE m \in ReactionMethods
  BY <1>19 DEF ReactionMethods
<1>20. CASE m \in ThreadStartMethods
  BY <1>20 DEF ThreadStartMethods
<1>21. CASE m \in ThreadMemberMethods
  BY <1>21 DEF ThreadMemberMethods
<1>22. CASE m \in ThreadListMethods
  BY <1>22 DEF ThreadListMethods
<1>23. CASE m \in ArchivedThreadMethods
  BY <1>23 DEF ArchivedThreadMethods
<1>24. CASE m \in CommandMethods
  BY <1>24 DEF CommandMethods
<1>25. CASE m \in CommandListMethods
  BY <1>25 DEF CommandListMethods
<1>26. CASE m \in CommandPermissionMethods
  BY <1>26 DEF CommandPermissionMethods
<1>27. CASE m \in InteractionMethods
  BY <1>27 DEF InteractionMethods
<1>28. CASE m \in StageAndScheduledEventMethods
  BY <1>28 DEF StageAndScheduledEventMethods
<1>29. CASE m \in OnboardingAndRuleMethods
  BY <1>29 DEF OnboardingAndRuleMethods
<1>30. CASE m \in RoleConnectionAndPollMethods
  BY <1>30 DEF RoleConnectionAndPollMethods
<1>31. CASE m \in EntitlementMethods
  BY <1>31 DEF EntitlementMethods
<1>32. CASE m \in OAuth2Methods
  BY <1>32 DEF OAuth2Methods
<1>33. CASE m \in PermissionMethods
  BY <1>33 DEF PermissionMethods
<1> HIDE DEF KeySequence
<1> QED
  BY <1>1, <1>2, <1>3, <1>4, <1>5, <1>6, <1>7, <1>8, <1>9, <1>10, <1>11, <1>12, <1>13, <1>14,
     <1>15, <1>16, <1>17, <1>18, <1>19, <1>20, <1>21, <1>22, <1>23, <1>24, <1>25, <1>26, <1>27,
     <1>28, <1>29, <1>30, <1>31, <1>32, <1>33 DEF Methods

\* In every key the segment before an argument tells which argument it is.
LEMMA Names ==
    ASSUME NEW m \in Methods
    PROVE  NamesFollow(m)
<1> USE DEF NamesFollow, After, Param, Sends, SendsAs, Calls, Empty
<1>1. CASE m \in UserMethods
  BY <1>1 DEF UserMethods
<1>2. CASE m \in GuildMethods
  BY <1>2 DEF GuildMethods
<1>3. CASE m \in BanAndMemberMethods
  BY <1>3 DEF BanAndMemberMethods
<1>4. CASE m \in MemberMethods
  BY <1>4 DEF MemberMethods
<1>5. CASE m \in MemberRoleMethods
  BY <1>5 DEF MemberRoleMethods
<1>6. CASE m \in ChannelListAndRoleMethods
  BY <1>6 DEF ChannelListAndRoleMethods
<1>7. CASE m \in PruneAndIntegrationMethods
  BY <1>7 DEF PruneAndIntegrationMethods
<1>8. CASE m \in ImageAuditEmojiMethods
  BY <1>8 DEF ImageAuditEmojiMethods
<1>9. CASE m \in EmojiMethods
  BY <1>9 DEF EmojiMethods
<1>10. CASE m \in TemplateUseMethods
  BY <1>10 DEF TemplateUseMethods
<1>11. CASE m \in TemplateMethods
  BY <1>11 DEF TemplateMethods
<1>12. CASE m \in ChannelMethods
  BY <1>12 DEF ChannelMethods
<1>13. CASE m \in SendMethods
  BY <1>13 DEF SendMethods
<1>14. CASE m \in EditAndPinMethods
  BY <1>14 DEF EditAndPinMethods
<1>15. CASE m \in FileAndPermissionMethods
  BY <1>15 DEF FileAndPermissionMethods
<1>16. CASE m \in InviteAndGatewayMethods
  BY <1>16 DEF InviteAndGatewayMethods
<1>17. CASE m \in WebhookMethods
  BY <1>17 DEF WebhookMethods
<1>18. CASE m \in WebhookMessageMethods
  BY <1>18 DEF WebhookMessageMethods
<1>19. CASE m \in ReactionMethods
  BY <1>19 DEF ReactionMethods
<1>20. CASE m \in ThreadStartMethods
  BY <1>20 DEF ThreadStartMethods
<1>21. CASE m \in ThreadMemberMethods
  BY <1>21 DEF ThreadMemberMethods
<1>22. CASE m \in ThreadListMethods
  BY <1>22 DEF ThreadListMethods
<1>23. CASE m \in ArchivedThreadMethods
  <2>1. CASE m.op \in {"ThreadsPrivateArchived"}
    BY <1>23, <2>1, SMTT(20) DEF ArchivedThreadMethods
  <2>2. CASE m.op \notin {"ThreadsPrivateArchived"}
    BY <1>23, <2>2, SMTT(20) DEF ArchivedThreadMethods
  <2> QED
    BY <2>1, <2>2
<1>24. CASE m \in CommandMethods
  BY <1>24 DEF CommandMethods
<1>25. CASE m \in CommandListMethods
  BY <1>25 DEF CommandListMethods
<1>26. CASE m \in CommandPermissionMethods
  BY <1>26 DEF CommandPermissionMethods
<1>27. CASE m \in InteractionMethods
  BY <1>27 DEF InteractionMethods
<1>28. CASE m \in StageAndScheduledEventMethods
  BY <1>28 DEF StageAndScheduledEventMethods
<1>29. CASE m \in OnboardingAndRuleMethods
  BY <1>29 DEF OnboardingAndRuleMethods
<1>30. CASE m \in RoleConnectionAndPollMethods
  <2>1. CASE m.op \in {"PollAnswerVoters", "PollExpire"}
    BY <1>30, <2>1, SMTT(20) DEF RoleConnectionAndPollMethods
  <2>2. CASE m.op \in {"UserApplicationRoleConnection", "UserApplicationRoleConnectionUpdate"}
    BY <1>30, <2>2, SMTT(20) DEF RoleConnectionAndPollMethods
  <2>3. CASE m.op \notin {"PollAnswerVoters", "PollExpire", "UserApplicationRoleConnection", "UserApplicationRoleConnectionUpdate"}
    BY <1>30, <2>3, SMTT(20) DEF RoleConnectionAndPollMethods
  <2> QED
    BY <2>1, <2>2, <2>3
<1>31. CASE m \in EntitlementMethods
  BY <1>31 DEF EntitlementMethods
<1>32. CASE m \in OAuth2Methods
  BY <1>32 DEF OAuth2Methods
<1>33. CASE m \in PermissionMethods
  BY <1>33 DEF PermissionMethods
<1> HIDE DEF NamesFollow
<1> QED
  BY <1>1, <1>2, <1>3, <1>4, <1>5, <1>6, <1>7, <1>8, <1>9, <1>10, <1>11, <1>12, <1>13, <1>14,
     <1>15, <1>16, <1>17, <1>18, <1>19, <1>20, <1>21, <1>22, <1>23, <1>24, <1>25, <1>26, <1>27,
     <1>28, <1>29, <1>30, <1>31, <1>32, <1>33 DEF Methods

\* The keys shared by several addresses are those of SharedKey's methods.
LEMMA Sharers ==
    ASSUME NEW m \in Methods
    PROVE  OnlySharers(m)
<1> USE DEF OnlySharers, ForUser, ForReactions, ForMembers, ForGuildEmojis,
            ForApplicationEmojis, ForToken, UserSharers, ReactionSharers, MemberSharers,
            GuildEmojiSharers, ApplicationEmojiSharers, TokenSharers, Sends, SendsAs, Calls,
            Empty
<1>1. CASE m \in UserMethods
  BY <1>1 DEF UserMethods
<1>2. CASE m \in GuildMethods
  BY <1>2, SMTT(30) DEF GuildMethods
<1>3. CASE m \in BanAndMemberMethods
  BY <1>3 DEF BanAndMemberMethods
<1>4. CASE m \in MemberMethods
  BY <1>4 DEF MemberMethods
<1>5. CASE m \in MemberRoleMethods
  BY <1>5 DEF MemberRoleMethods
<1>6. CASE m \in ChannelListAndRoleMethods
  BY <1>6 DEF ChannelListAndRoleMethods
<1>7. CASE m \in PruneAndIntegrationMethods
  BY <1>7 DEF PruneAndIntegrationMethods
<1>8. CASE m \in ImageAuditEmojiMethods
  <2>1. m.key = <<>> \/ m.key[1] \in {"guilds", "cdn.discordapp.com"}
    BY <1>8 DEF ImageAuditEmojiMethods
  <2>2. Len(m.key) \in {0, 3, 4}
    BY <1>8, SMTT(20) DEF ImageAuditEmojiMethods
  <2>3. m.op \in GuildEmojiSharers \/ m.key = <<>> \/ m.key[3] # "emojis" \/ Len(m.key) = 4
    BY <1>8, SMTT(20) DEF ImageAuditEmojiMethods
  <2>4. m.key = <<>> => Len(m.key) = 0
    OBVIOUS
  <2>5. m.op \in GuildEmojiSharers \/ ~ForGuildEmojis(m.key)
    BY <2>2, <2>3, <2>4
  <2>6. ~ForUser(m.key) /\ ~ForReactions(m.key) /\ ~ForApplicationEmojis(m.key) /\ ~ForToken(m.key)
    BY <2>1, <2>2, <2>4
  <2>7. m.key = <<>> \/ m.key[3] # "members"
    BY <1>8, SMTT(20) DEF ImageAuditEmojiMethods
  <2>8. ~ForMembers(m.key)
    BY <2>4, <2>7
  <2> QED
    BY <2>5, <2>6, <2>8
<1>9. CASE m \in EmojiMethods
  <2>1. m.key[1] \in {"guilds", "applications"}
    BY <1>9 DEF EmojiMethods
  <2>2. Len(m.key) \in {3, 4}
    BY <1>9 DEF EmojiMethods
  <2>3. m.key[1] = "guilds" => m.op \in GuildEmojiSharers
    BY <1>9 DEF EmojiMethods
  <2>4. m.key[1] = "applications" /\ Len(m.key) # 4 => m.op \in ApplicationEmojiSharers
    BY <1>9, SMTT(20) DEF EmojiMethods
  <2>5. m.key[3] # "members"
    BY <1>9, SMTT(20) DEF EmojiMethods
  <2>6. ~ForUser(m.key) /\ ~ForReactions(m.key) /\ ~ForMembers(m.key) /\ ~ForToken(m.key)
    BY <2>1, <2>2, <2>5
  <2> QED
    BY <2>2, <2>3, <2>4, <2>6
<1>10. CASE m \in TemplateUseMethods
  BY <1>10 DEF TemplateUseMethods
<1>11. CASE m \in TemplateMethods
  BY <1>11 DEF TemplateMethods
<1>12. CASE m \in ChannelMethods
  BY <1>12 DEF ChannelMethods
<1>13. CASE m \in SendMethods
  BY <1>13 DEF SendMethods
<1>14. CASE m \in EditAndPinMethods
  BY <1>14 DEF EditAndPinMethods
<1>15. CASE m \in FileAndPermissionMethods
  BY <1>15, SMTT(30) DEF FileAndPermissionMethods
<1>16. CASE m \in InviteAndGatewayMethods
  BY <1>16 DEF InviteAndGatewayMethods
<1>17. CASE m \in WebhookMethods
  BY <1>17 DEF WebhookMethods
<1>18. CASE m \in WebhookMessageMethods
  BY <1>18 DEF WebhookMessageMethods
<1>19. CASE m \in ReactionMethods
  BY <1>19 DEF ReactionMethods
<1>20. CASE m \in ThreadStartMethods
  BY <1>20 DEF ThreadStartMethods
<1>21. CASE m \in ThreadMemberMethods
  BY <1>21 DEF ThreadMemberMethods
<1>22. CASE m \in ThreadListMethods
  BY <1>22 DEF ThreadListMethods
<1>23. CASE m \in ArchivedThreadMethods
  BY <1>23 DEF ArchivedThreadMethods
<1>24. CASE m \in CommandMethods
  BY <1>24 DEF CommandMethods
<1>25. CASE m \in CommandListMethods
  BY <1>25 DEF CommandListMethods
<1>26. CASE m \in CommandPermissionMethods
  BY <1>26 DEF CommandPermissionMethods
<1>27. CASE m \in InteractionMethods
  BY <1>27, SMTT(30) DEF InteractionMethods
<1>28. CASE m \in StageAndScheduledEventMethods
  BY <1>28 DEF StageAndScheduledEventMethods
<1>29. CASE m \in OnboardingAndRuleMethods
  BY <1>29 DEF OnboardingAndRuleMethods
<1>30. CASE m \in RoleConnectionAndPollMethods
  BY <1>30 DEF RoleConnectionAndPollMethods
<1>31. CASE m \in EntitlementMethods
  BY <1>31 DEF EntitlementMethods
<1>32. CASE m \in OAuth2Methods
  BY <1>32 DEF OAuth2Methods
<1>33. CASE m \in PermissionMethods
  BY <1>33 DEF PermissionMethods
<1> HIDE DEF OnlySharers
<1> QED
  BY <1>1, <1>2, <1>3, <1>4, <1>5, <1>6, <1>7, <1>8, <1>9, <1>10, <1>11, <1>12, <1>13, <1>14,
     <1>15, <1>16, <1>17, <1>18, <1>19, <1>20, <1>21, <1>22, <1>23, <1>24, <1>25, <1>26, <1>27,
     <1>28, <1>29, <1>30, <1>31, <1>32, <1>33 DEF Methods

\* Every other key belongs to one address.
LEMMA Addresses ==
    ASSUME NEW m \in Methods
    PROVE  AddressFollows(m)
<1> USE DEF AddressFollows, Address, After, Shares, GlobalCommands, GuildCommands, ForUser,
            ForReactions, ForMembers, ForGuildEmojis, ForApplicationEmojis, ForToken, Sends,
            SendsAs, Calls, Empty
<1>1. CASE m \in UserMethods
  BY <1>1 DEF UserMethods
<1>2. CASE m \in GuildMethods
  BY <1>2 DEF GuildMethods
<1>3. CASE m \in BanAndMemberMethods
  BY <1>3 DEF BanAndMemberMethods
<1>4. CASE m \in MemberMethods
  BY <1>4 DEF MemberMethods
<1>5. CASE m \in MemberRoleMethods
  BY <1>5 DEF MemberRoleMethods
<1>6. CASE m \in ChannelListAndRoleMethods
  BY <1>6 DEF ChannelListAndRoleMethods
<1>7. CASE m \in PruneAndIntegrationMethods
  BY <1>7 DEF PruneAndIntegrationMethods
<1>8. CASE m \in ImageAuditEmojiMethods
  BY <1>8 DEF ImageAuditEmojiMethods
<1>9. CASE m \in EmojiMethods
  BY <1>9 DEF EmojiMethods
<1>10. CASE m \in TemplateUseMethods
  BY <1>10 DEF TemplateUseMethods
<1>11. CASE m \in TemplateMethods
  BY <1>11 DEF TemplateMethods
<1>12. CASE m \in ChannelMethods
  BY <1>12 DEF ChannelMethods
<1>13. CASE m \in SendMethods
  BY <1>13 DEF SendMethods
<1>14. CASE m \in EditAndPinMethods
  BY <1>14 DEF EditAndPinMethods
<1>15. CASE m \in FileAndPermissionMethods
  BY <1>15 DEF FileAndPermissionMethods
<1>16. CASE m \in InviteAndGatewayMethods
  BY <1>16 DEF InviteAndGatewayMethods
<1>17. CASE m \in WebhookMethods
  BY <1>17 DEF WebhookMethods
<1>18. CASE m \in WebhookMessageMethods
  BY <1>18 DEF WebhookMessageMethods
<1>19. CASE m \in ReactionMethods
  BY <1>19 DEF ReactionMethods
<1>20. CASE m \in ThreadStartMethods
  BY <1>20 DEF ThreadStartMethods
<1>21. CASE m \in ThreadMemberMethods
  BY <1>21 DEF ThreadMemberMethods
<1>22. CASE m \in ThreadListMethods
  BY <1>22 DEF ThreadListMethods
<1>23. CASE m \in ArchivedThreadMethods
  <2>1. CASE m.op \in {"ThreadsPrivateArchived"}
    BY <1>23, <2>1, SMTT(20) DEF ArchivedThreadMethods
  <2>2. CASE m.op \notin {"ThreadsPrivateArchived"}
    BY <1>23, <2>2, SMTT(20) DEF ArchivedThreadMethods
  <2> QED
    BY <2>1, <2>2
<1>24. CASE m \in CommandMethods
  BY <1>24 DEF CommandMethods
<1>25. CASE m \in CommandListMethods
  <2>1. CASE m.op = "ApplicationCommands"
    <3>1. \/ m.path = GlobalCommands /\ m.key = <<"GET", "applications", "appID", "commands">>
          \/ m.path = GuildCommands
             /\ m.key = <<"GET", "applications", "appID", "guilds", "guildID", "commands">>
      BY <1>25, <2>1, SMTT(20) DEF CommandListMethods, GlobalCommands, GuildCommands
    <3>2. CASE m.key = <<"GET", "applications", "appID", "commands">>
      BY <3>1, <3>2 DEF GlobalCommands, GuildCommands
    <3>3. CASE m.key = <<"GET", "applications", "appID", "guilds", "guildID", "commands">>
      BY <3>1, <3>3 DEF GlobalCommands, GuildCommands
    <3> QED
      BY <3>1, <3>2, <3>3
  <2>2. CASE m.op # "ApplicationCommands"
    BY <1>25, <2>2, SMTT(20) DEF CommandListMethods
  <2> QED
    BY <2>1, <2>2
<1>26. CASE m \in CommandPermissionMethods
  BY <1>26 DEF CommandPermissionMethods
<1>27. CASE m \in InteractionMethods
  BY <1>27 DEF InteractionMethods
<1>28. CASE m \in StageAndScheduledEventMethods
  BY <1>28 DEF StageAndScheduledEventMethods
<1>29. CASE m \in OnboardingAndRuleMethods
  BY <1>29 DEF OnboardingAndRuleMethods
<1>30. CASE m \in RoleConnectionAndPollMethods
  BY <1>30 DEF RoleConnectionAndPollMethods
<1>31. CASE m \in EntitlementMethods
  <2>1. CASE m.op \in {"EntitlementConsume", "EntitlementTestDelete"}
    BY <1>31, <2>1, SMTT(20) DEF EntitlementMethods
  <2>2. CASE m.op \in {"Subscription", "UserVoiceState"}
    BY <1>31, <2>2, SMTT(20) DEF EntitlementMethods
  <2>3. CASE m.op \notin {"EntitlementConsume", "EntitlementTestDelete", "Subscription", "UserVoiceState"}
    BY <1>31, <2>3, SMTT(20) DEF EntitlementMethods
  <2> QED
    BY <2>1, <2>2, <2>3
<1>32. CASE m \in OAuth2Methods
  BY <1>32 DEF OAuth2Methods
<1>33. CASE m \in PermissionMethods
  BY <1>33 DEF PermissionMethods
<1> HIDE DEF AddressFollows
<1> QED
  BY <1>1, <1>2, <1>3, <1>4, <1>5, <1>6, <1>7, <1>8, <1>9, <1>10, <1>11, <1>12, <1>13, <1>14,
     <1>15, <1>16, <1>17, <1>18, <1>19, <1>20, <1>21, <1>22, <1>23, <1>24, <1>25, <1>26, <1>27,
     <1>28, <1>29, <1>30, <1>31, <1>32, <1>33 DEF Methods

\* Keys but those of AnyOfThem keep what Discord's limits depend on.
LEMMA Majors ==
    ASSUME NEW m \in Methods
    PROVE  MajorKept(m)
<1> USE DEF MajorKept, ForAny, ForToken, Major, AnyOfThem, Segments, Sends, SendsAs, Calls,
            Empty
<1>1. CASE m \in UserMethods
  BY <1>1 DEF UserMethods
<1>2. CASE m \in GuildMethods
  BY <1>2 DEF GuildMethods
<1>3. CASE m \in BanAndMemberMethods
  BY <1>3 DEF BanAndMemberMethods
<1>4. CASE m \in MemberMethods
  BY <1>4 DEF MemberMethods
<1>5. CASE m \in MemberRoleMethods
  BY <1>5 DEF MemberRoleMethods
<1>6. CASE m \in ChannelListAndRoleMethods
  BY <1>6, SMTT(30) DEF ChannelListAndRoleMethods
<1>7. CASE m \in PruneAndIntegrationMethods
  BY <1>7 DEF PruneAndIntegrationMethods
<1>8. CASE m \in ImageAuditEmojiMethods
  BY <1>8, SMTT(30) DEF ImageAuditEmojiMethods
<1>9. CASE m \in EmojiMethods
  BY <1>9 DEF EmojiMethods
<1>10. CASE m \in TemplateUseMethods
  BY <1>10 DEF TemplateUseMethods
<1>11. CASE m \in TemplateMethods
  BY <1>11 DEF TemplateMethods
<1>12. CASE m \in ChannelMethods
  BY <1>12 DEF ChannelMethods
<1>13. CASE m \in SendMethods
  BY <1>13 DEF SendMethods
<1>14. CASE m \in EditAndPinMethods
  BY <1>14 DEF EditAndPinMethods
<1>15. CASE m \in FileAndPermissionMethods
  BY <1>15 DEF FileAndPermissionMethods
<1>16. CASE m \in InviteAndGatewayMethods
  BY <1>16 DEF InviteAndGatewayMethods
<1>17. CASE m \in WebhookMethods
  BY <1>17 DEF WebhookMethods
<1>18. CASE m \in WebhookMessageMethods
  BY <1>18 DEF WebhookMessageMethods
<1>19. CASE m \in ReactionMethods
  BY <1>19, SMTT(40) DEF ReactionMethods
<1>20. CASE m \in ThreadStartMethods
  BY <1>20 DEF ThreadStartMethods
<1>21. CASE m \in ThreadMemberMethods
  BY <1>21 DEF ThreadMemberMethods
<1>22. CASE m \in ThreadListMethods
  BY <1>22 DEF ThreadListMethods
<1>23. CASE m \in ArchivedThreadMethods
  <2>1. CASE m.op \in {"ThreadsPrivateArchived"}
    BY <1>23, <2>1, SMTT(40) DEF ArchivedThreadMethods
  <2>2. CASE m.op \notin {"ThreadsPrivateArchived"}
    BY <1>23, <2>2, SMTT(40) DEF ArchivedThreadMethods
  <2> QED
    BY <2>1, <2>2
<1>24. CASE m \in CommandMethods
  BY <1>24 DEF CommandMethods
<1>25. CASE m \in CommandListMethods
  BY <1>25 DEF CommandListMethods
<1>26. CASE m \in CommandPermissionMethods
  BY <1>26 DEF CommandPermissionMethods
<1>27. CASE m \in InteractionMethods
  BY <1>27 DEF InteractionMethods
<1>28. CASE m \in StageAndScheduledEventMethods
  BY <1>28 DEF StageAndScheduledEventMethods
<1>29. CASE m \in OnboardingAndRuleMethods
  BY <1>29 DEF OnboardingAndRuleMethods
<1>30. CASE m \in RoleConnectionAndPollMethods
  BY <1>30 DEF RoleConnectionAndPollMethods
<1>31. CASE m \in EntitlementMethods
  BY <1>31 DEF EntitlementMethods
<1>32. CASE m \in OAuth2Methods
  <2>1. CASE m.op \in {"Applications", "ApplicationCreate"}
    BY <1>32, <2>1, SMTT(20) DEF OAuth2Methods
  <2>2. CASE m.op \notin {"Applications", "ApplicationCreate"}
    BY <1>32, <2>2, SMTT(20) DEF OAuth2Methods
  <2> QED
    BY <2>1, <2>2
<1>33. CASE m \in PermissionMethods
  BY <1>33 DEF PermissionMethods
<1> HIDE DEF MajorKept
<1> QED
  BY <1>1, <1>2, <1>3, <1>4, <1>5, <1>6, <1>7, <1>8, <1>9, <1>10, <1>11, <1>12, <1>13, <1>14,
     <1>15, <1>16, <1>17, <1>18, <1>19, <1>20, <1>21, <1>22, <1>23, <1>24, <1>25, <1>26, <1>27,
     <1>28, <1>29, <1>30, <1>31, <1>32, <1>33 DEF Methods

\* The keys that are written out in the code.
LEMMA OwnKeysOfRows ==
    ASSUME NEW m \in Methods
    PROVE  OwnKeys(m)
<1> USE DEF OwnKeys, OwnKey, GlobalCommands, GuildCommands, Sends, SendsAs, Calls, Empty
<1>1. CASE m \in UserMethods
  BY <1>1 DEF UserMethods
<1>2. CASE m \in GuildMethods
  BY <1>2 DEF GuildMethods
<1>3. CASE m \in BanAndMemberMethods
  BY <1>3 DEF BanAndMemberMethods
<1>4. CASE m \in MemberMethods
  BY <1>4 DEF MemberMethods
<1>5. CASE m \in MemberRoleMethods
  BY <1>5 DEF MemberRoleMethods
<1>6. CASE m \in ChannelListAndRoleMethods
  BY <1>6 DEF ChannelListAndRoleMethods
<1>7. CASE m \in PruneAndIntegrationMethods
  BY <1>7 DEF PruneAndIntegrationMethods
<1>8. CASE m \in ImageAuditEmojiMethods
  BY <1>8 DEF ImageAuditEmojiMethods
<1>9. CASE m \in EmojiMethods
  BY <1>9 DEF EmojiMethods
<1>10. CASE m \in TemplateUseMethods
  BY <1>10 DEF TemplateUseMethods
<1>11. CASE m \in TemplateMethods
  BY <1>11 DEF TemplateMethods
<1>12. CASE m \in ChannelMethods
  BY <1>12 DEF ChannelMethods
<1>13. CASE m \in SendMethods
  BY <1>13 DEF SendMethods
<1>14. CASE m \in EditAndPinMethods
  BY <1>14 DEF EditAndPinMethods
<1>15. CASE m \in FileAndPermissionMethods
  BY <1>15 DEF FileAndPermissionMethods
<1>16. CASE m \in InviteAndGatewayMethods
  BY <1>16 DEF InviteAndGatewayMethods
<1>17. CASE m \in WebhookMethods
  BY <1>17 DEF WebhookMethods
<1>18. CASE m \in WebhookMessageMethods
  BY <1>18 DEF WebhookMessageMethods
<1>19. CASE m \in ReactionMethods
  BY <1>19 DEF ReactionMethods
<1>20. CASE m \in ThreadStartMethods
  BY <1>20 DEF ThreadStartMethods
<1>21. CASE m \in ThreadMemberMethods
  BY <1>21 DEF ThreadMemberMethods
<1>22. CASE m \in ThreadListMethods
  BY <1>22 DEF ThreadListMethods
<1>23. CASE m \in ArchivedThreadMethods
  BY <1>23 DEF ArchivedThreadMethods
<1>24. CASE m \in CommandMethods
  BY <1>24 DEF CommandMethods
<1>25. CASE m \in CommandListMethods
  BY <1>25, SMTT(20) DEF CommandListMethods
<1>26. CASE m \in CommandPermissionMethods
  BY <1>26 DEF CommandPermissionMethods
<1>27. CASE m \in InteractionMethods
  BY <1>27 DEF InteractionMethods
<1>28. CASE m \in StageAndScheduledEventMethods
  BY <1>28 DEF StageAndScheduledEventMethods
<1>29. CASE m \in OnboardingAndRuleMethods
  BY <1>29 DEF OnboardingAndRuleMethods
<1>30. CASE m \in RoleConnectionAndPollMethods
  BY <1>30 DEF RoleConnectionAndPollMethods
<1>31. CASE m \in EntitlementMethods
  BY <1>31 DEF EntitlementMethods
<1>32. CASE m \in OAuth2Methods
  BY <1>32 DEF OAuth2Methods
<1>33. CASE m \in PermissionMethods
  BY <1>33 DEF PermissionMethods
<1> HIDE DEF OwnKeys
<1> QED
  BY <1>1, <1>2, <1>3, <1>4, <1>5, <1>6, <1>7, <1>8, <1>9, <1>10, <1>11, <1>12, <1>13, <1>14,
     <1>15, <1>16, <1>17, <1>18, <1>19, <1>20, <1>21, <1>22, <1>23, <1>24, <1>25, <1>26, <1>27,
     <1>28, <1>29, <1>30, <1>31, <1>32, <1>33 DEF Methods

\* All the others are made of the address.
LEMMA KeysFollow ==
    ASSUME NEW m \in Methods
    PROVE  KeyFollows(m)
<1> USE DEF KeyFollows, Dropped, Param, Major, PerObject, AnyOfThem, OwnKey, Sends, SendsAs,
            Calls, Empty
<1>1. CASE m \in UserMethods
  <2>1. CASE m.op \in {"UserUpdate", "UserChannelCreate", "UserGuilds"}
    BY <1>1, <2>1, SMTT(20) DEF UserMethods
  <2>2. CASE m.op \in {"User", "UserAvatarDecode"}
    BY <1>1, <2>2, SMTT(20) DEF UserMethods
  <2>3. CASE m.op \notin {"UserUpdate", "UserChannelCreate", "UserGuilds", "User", "UserAvatarDecode"}
    BY <1>1, <2>3, SMTT(20) DEF UserMethods
  <2> QED
    BY <2>1, <2>2, <2>3
<1>2. CASE m \in GuildMethods
  BY <1>2 DEF GuildMethods
<1>3. CASE m \in BanAndMemberMethods
  BY <1>3 DEF BanAndMemberMethods
<1>4. CASE m \in MemberMethods
  BY <1>4 DEF MemberMethods
<1>5. CASE m \in MemberRoleMethods
  BY <1>5 DEF MemberRoleMethods
<1>6. CASE m \in ChannelListAndRoleMethods
  BY <1>6 DEF ChannelListAndRoleMethods
<1>7. CASE m \in PruneAndIntegrationMethods
  BY <1>7 DEF PruneAndIntegrationMethods
<1>8. CASE m \in ImageAuditEmojiMethods
  BY <1>8 DEF ImageAuditEmojiMethods
<1>9. CASE m \in EmojiMethods
  BY <1>9 DEF EmojiMethods
<1>10. CASE m \in TemplateUseMethods
  BY <1>10 DEF TemplateUseMethods
<1>11. CASE m \in TemplateMethods
  BY <1>11 DEF TemplateMethods
<1>12. CASE m \in ChannelMethods
  BY <1>12 DEF ChannelMethods
<1>13. CASE m \in SendMethods
  BY <1>13 DEF SendMethods
<1>14. CASE m \in EditAndPinMethods
  BY <1>14 DEF EditAndPinMethods
<1>15. CASE m \in FileAndPermissionMethods
  BY <1>15 DEF FileAndPermissionMethods
<1>16. CASE m \in InviteAndGatewayMethods
  BY <1>16 DEF InviteAndGatewayMethods
<1>17. CASE m \in WebhookMethods
  BY <1>17 DEF WebhookMethods
<1>18. CASE m \in WebhookMessageMethods
  BY <1>18 DEF WebhookMessageMethods
<1>19. CASE m \in ReactionMethods
  BY <1>19 DEF ReactionMethods
<1>20. CASE m \in ThreadStartMethods
  BY <1>20 DEF ThreadStartMethods
<1>21. CASE m \in ThreadMemberMethods
  BY <1>21 DEF ThreadMemberMethods
<1>22. CASE m \in ThreadListMethods
  BY <1>22 DEF ThreadListMethods
<1>23. CASE m \in ArchivedThreadMethods
  BY <1>23 DEF ArchivedThreadMethods
<1>24. CASE m \in CommandMethods
  BY <1>24 DEF CommandMethods
<1>25. CASE m \in CommandListMethods
  BY <1>25 DEF CommandListMethods
<1>26. CASE m \in CommandPermissionMethods
  BY <1>26 DEF CommandPermissionMethods
<1>27. CASE m \in InteractionMethods
  BY <1>27 DEF InteractionMethods
<1>28. CASE m \in StageAndScheduledEventMethods
  BY <1>28 DEF StageAndScheduledEventMethods
<1>29. CASE m \in OnboardingAndRuleMethods
  BY <1>29 DEF OnboardingAndRuleMethods
<1>30. CASE m \in RoleConnectionAndPollMethods
  BY <1>30, SMTT(30) DEF RoleConnectionAndPollMethods
<1>31. CASE m \in EntitlementMethods
  BY <1>31 DEF EntitlementMethods
<1>32. CASE m \in OAuth2Methods
  BY <1>32 DEF OAuth2Methods
<1>33. CASE m \in PermissionMethods
  BY <1>33 DEF PermissionMethods
<1> HIDE DEF KeyFollows
<1> QED
  BY <1>1, <1>2, <1>3, <1>4, <1>5, <1>6, <1>7, <1>8, <1>9, <1>10, <1>11, <1>12, <1>13, <1>14,
     <1>15, <1>16, <1>17, <1>18, <1>19, <1>20, <1>21, <1>22, <1>23, <1>24, <1>25, <1>26, <1>27,
     <1>28, <1>29, <1>30, <1>31, <1>32, <1>33 DEF Methods

\* A method that is not counted by object names no object in its key.
LEMMA KeysHaveMajor ==
    ASSUME NEW m \in Methods
    PROVE  OnlyMajorInKey(m)
<1> USE DEF OnlyMajorInKey, Param, Major, PerObject, Segments, Sends, SendsAs, Calls, Empty
<1>1. CASE m \in UserMethods
  BY <1>1 DEF UserMethods
<1>2. CASE m \in GuildMethods
  BY <1>2 DEF GuildMethods
<1>3. CASE m \in BanAndMemberMethods
  BY <1>3 DEF BanAndMemberMethods
<1>4. CASE m \in MemberMethods
  BY <1>4 DEF MemberMethods
<1>5. CASE m \in MemberRoleMethods
  BY <1>5 DEF MemberRoleMethods
<1>6. CASE m \in ChannelListAndRoleMethods
  BY <1>6 DEF ChannelListAndRoleMethods
<1>7. CASE m \in PruneAndIntegrationMethods
  BY <1>7 DEF PruneAndIntegrationMethods
<1>8. CASE m \in ImageAuditEmojiMethods
  BY <1>8 DEF ImageAuditEmojiMethods
<1>9. CASE m \in EmojiMethods
  BY <1>9 DEF EmojiMethods
<1>10. CASE m \in TemplateUseMethods
  BY <1>10 DEF TemplateUseMethods
<1>11. CASE m \in TemplateMethods
  BY <1>11 DEF TemplateMethods
<1>12. CASE m \in ChannelMethods
  BY <1>12 DEF ChannelMethods
<1>13. CASE m \in SendMethods
  BY <1>13 DEF SendMethods
<1>14. CASE m \in EditAndPinMethods
  BY <1>14 DEF EditAndPinMethods
<1>15. CASE m \in FileAndPermissionMethods
  BY <1>15 DEF FileAndPermissionMethods
<1>16. CASE m \in InviteAndGatewayMethods
  BY <1>16 DEF InviteAndGatewayMethods
<1>17. CASE m \in WebhookMethods
  BY <1>17 DEF WebhookMethods
<1>18. CASE m \in WebhookMessageMethods
  BY <1>18 DEF WebhookMessageMethods
<1>19. CASE m \in ReactionMethods
  BY <1>19 DEF ReactionMethods
<1>20. CASE m \in ThreadStartMethods
  BY <1>20 DEF ThreadStartMethods
<1>21. CASE m \in ThreadMemberMethods
  BY <1>21 DEF ThreadMemberMethods
<1>22. CASE m \in ThreadListMethods
  BY <1>22 DEF ThreadListMethods
<1>23. CASE m \in ArchivedThreadMethods
  BY <1>23 DEF ArchivedThreadMethods
<1>24. CASE m \in CommandMethods
  BY <1>24 DEF CommandMethods
<1>25. CASE m \in CommandListMethods
  BY <1>25 DEF CommandListMethods
<1>26. CASE m \in CommandPermissionMethods
  BY <1>26 DEF CommandPermissionMethods
<1>27. CASE m \in InteractionMethods
  BY <1>27 DEF InteractionMethods
<1>28. CASE m \in StageAndScheduledEventMethods
  BY <1>28 DEF StageAndScheduledEventMethods
<1>29. CASE m \in OnboardingAndRuleMethods
  BY <1>29 DEF OnboardingAndRuleMethods
<1>30. CASE m \in RoleConnectionAndPollMethods
  BY <1>30 DEF RoleConnectionAndPollMethods
<1>31. CASE m \in EntitlementMethods
  BY <1>31 DEF EntitlementMethods
<1>32. CASE m \in OAuth2Methods
  BY <1>32 DEF OAuth2Methods
<1>33. CASE m \in PermissionMethods
  BY <1>33 DEF PermissionMethods
<1> HIDE DEF OnlyMajorInKey
<1> QED
  BY <1>1, <1>2, <1>3, <1>4, <1>5, <1>6, <1>7, <1>8, <1>9, <1>10, <1>11, <1>12, <1>13, <1>14,
     <1>15, <1>16, <1>17, <1>18, <1>19, <1>20, <1>21, <1>22, <1>23, <1>24, <1>25, <1>26, <1>27,
     <1>28, <1>29, <1>30, <1>31, <1>32, <1>33 DEF Methods

\* The key of the custom limit for reactions.
LEMMA ReactionRows ==
    ASSUME NEW m \in Methods
    PROVE  ReactionRow(m)
<1> USE DEF ReactionRow, ReactionSharers, Sends, SendsAs, Calls, Empty
<1>1. CASE m \in UserMethods
  BY <1>1 DEF UserMethods
<1>2. CASE m \in GuildMethods
  BY <1>2 DEF GuildMethods
<1>3. CASE m \in BanAndMemberMethods
  BY <1>3 DEF BanAndMemberMethods
<1>4. CASE m \in MemberMethods
  BY <1>4 DEF MemberMethods
<1>5. CASE m \in MemberRoleMethods
  BY <1>5 DEF MemberRoleMethods
<1>6. CASE m \in ChannelListAndRoleMethods
  BY <1>6 DEF ChannelListAndRoleMethods
<1>7. CASE m \in PruneAndIntegrationMethods
  BY <1>7 DEF PruneAndIntegrationMethods
<1>8. CASE m \in ImageAuditEmojiMethods
  BY <1>8 DEF ImageAuditEmojiMethods
<1>9. CASE m \in EmojiMethods
  BY <1>9 DEF EmojiMethods
<1>10. CASE m \in TemplateUseMethods
  BY <1>10 DEF TemplateUseMethods
<1>11. CASE m \in TemplateMethods
  BY <1>11 DEF TemplateMethods
<1>12. CASE m \in ChannelMethods
  BY <1>12 DEF ChannelMethods
<1>13. CASE m \in SendMethods
  BY <1>13 DEF SendMethods
<1>14. CASE m \in EditAndPinMethods
  BY <1>14 DEF EditAndPinMethods
<1>15. CASE m \in FileAndPermissionMethods
  BY <1>15 DEF FileAndPermissionMethods
<1>16. CASE m \in InviteAndGatewayMethods
  BY <1>16 DEF InviteAndGatewayMethods
<1>17. CASE m \in WebhookMethods
  BY <1>17 DEF WebhookMethods
<1>18. CASE m \in WebhookMessageMethods
  BY <1>18 DEF WebhookMessageMethods
<1>19. CASE m \in ReactionMethods
  BY <1>19, SMTT(30) DEF ReactionMethods
<1>20. CASE m \in ThreadStartMethods
  BY <1>20 DEF ThreadStartMethods
<1>21. CASE m \in ThreadMemberMethods
  BY <1>21 DEF ThreadMemberMethods
<1>22. CASE m \in ThreadListMethods
  BY <1>22 DEF ThreadListMethods
<1>23. CASE m \in ArchivedThreadMethods
  BY <1>23 DEF ArchivedThreadMethods
<1>24. CASE m \in CommandMethods
  BY <1>24 DEF CommandMethods
<1>25. CASE m \in CommandListMethods
  BY <1>25 DEF CommandListMethods
<1>26. CASE m \in CommandPermissionMethods
  BY <1>26 DEF CommandPermissionMethods
<1>27. CASE m \in InteractionMethods
  BY <1>27 DEF InteractionMethods
<1>28. CASE m \in StageAndScheduledEventMethods
  BY <1>28 DEF StageAndScheduledEventMethods
<1>29. CASE m \in OnboardingAndRuleMethods
  BY <1>29 DEF OnboardingAndRuleMethods
<1>30. CASE m \in RoleConnectionAndPollMethods
  BY <1>30, SMTT(30) DEF RoleConnectionAndPollMethods
<1>31. CASE m \in EntitlementMethods
  BY <1>31 DEF EntitlementMethods
<1>32. CASE m \in OAuth2Methods
  BY <1>32 DEF OAuth2Methods
<1>33. CASE m \in PermissionMethods
  BY <1>33 DEF PermissionMethods
<1> HIDE DEF ReactionRow
<1> QED
  BY <1>1, <1>2, <1>3, <1>4, <1>5, <1>6, <1>7, <1>8, <1>9, <1>10, <1>11, <1>12, <1>13, <1>14,
     <1>15, <1>16, <1>17, <1>18, <1>19, <1>20, <1>21, <1>22, <1>23, <1>24, <1>25, <1>26, <1>27,
     <1>28, <1>29, <1>30, <1>31, <1>32, <1>33 DEF Methods

\* Which methods make a request of their own.
LEMMA RequestRows ==
    ASSUME NEW m \in Methods
    PROVE  RequestRow(m)
<1> USE DEF RequestRow, GetOps, TakesMessage, Sends, SendsAs, Calls, Empty
<1>1. CASE m \in UserMethods
  BY <1>1 DEF UserMethods
<1>2. CASE m \in GuildMethods
  BY <1>2 DEF GuildMethods
<1>3. CASE m \in BanAndMemberMethods
  BY <1>3 DEF BanAndMemberMethods
<1>4. CASE m \in MemberMethods
  BY <1>4 DEF MemberMethods
<1>5. CASE m \in MemberRoleMethods
  BY <1>5 DEF MemberRoleMethods
<1>6. CASE m \in ChannelListAndRoleMethods
  BY <1>6 DEF ChannelListAndRoleMethods
<1>7. CASE m \in PruneAndIntegrationMethods
  BY <1>7 DEF PruneAndIntegrationMethods
<1>8. CASE m \in ImageAuditEmojiMethods
  BY <1>8 DEF ImageAuditEmojiMethods
<1>9. CASE m \in EmojiMethods
  BY <1>9 DEF EmojiMethods
<1>10. CASE m \in TemplateUseMethods
  BY <1>10 DEF TemplateUseMethods
<1>11. CASE m \in TemplateMethods
  BY <1>11 DEF TemplateMethods
<1>12. CASE m \in ChannelMethods
  BY <1>12 DEF ChannelMethods
<1>13. CASE m \in SendMethods
  BY <1>13 DEF SendMethods
<1>14. CASE m \in EditAndPinMethods
  BY <1>14 DEF EditAndPinMethods
<1>15. CASE m \in FileAndPermissionMethods
  BY <1>15 DEF FileAndPermissionMethods
<1>16. CASE m \in InviteAndGatewayMethods
  BY <1>16 DEF InviteAndGatewayMethods
<1>17. CASE m \in WebhookMethods
  BY <1>17 DEF WebhookMethods
<1>18. CASE m \in WebhookMessageMethods
  BY <1>18 DEF WebhookMessageMethods
<1>19. CASE m \in ReactionMethods
  BY <1>19 DEF ReactionMethods
<1>20. CASE m \in ThreadStartMethods
  BY <1>20 DEF ThreadStartMethods
<1>21. CASE m \in ThreadMemberMethods
  BY <1>21 DEF ThreadMemberMethods
<1>22. CASE m \in ThreadListMethods
  BY <1>22 DEF ThreadListMethods
<1>23. CASE m \in ArchivedThreadMethods
  BY <1>23 DEF ArchivedThreadMethods
<1>24. CASE m \in CommandMethods
  BY <1>24 DEF CommandMethods
<1>25. CASE m \in CommandListMethods
  BY <1>25 DEF CommandListMethods
<1>26. CASE m \in CommandPermissionMethods
  BY <1>26 DEF CommandPermissionMethods
<1>27. CASE m \in InteractionMethods
  BY <1>27 DEF InteractionMethods
<1>28. CASE m \in StageAndScheduledEventMethods
  BY <1>28 DEF StageAndScheduledEventMethods
<1>29. CASE m \in OnboardingAndRuleMethods
  BY <1>29 DEF OnboardingAndRuleMethods
<1>30. CASE m \in RoleConnectionAndPollMethods
  BY <1>30 DEF RoleConnectionAndPollMethods
<1>31. CASE m \in EntitlementMethods
  BY <1>31 DEF EntitlementMethods
<1>32. CASE m \in OAuth2Methods
  BY <1>32 DEF OAuth2Methods
<1>33. CASE m \in PermissionMethods
  BY <1>33 DEF PermissionMethods
<1> HIDE DEF RequestRow
<1> QED
  BY <1>1, <1>2, <1>3, <1>4, <1>5, <1>6, <1>7, <1>8, <1>9, <1>10, <1>11, <1>12, <1>13, <1>14,
     <1>15, <1>16, <1>17, <1>18, <1>19, <1>20, <1>21, <1>22, <1>23, <1>24, <1>25, <1>26, <1>27,
     <1>28, <1>29, <1>30, <1>31, <1>32, <1>33 DEF Methods

\* Which methods call others.
LEMMA CallsRows ==
    ASSUME NEW m \in Methods
    PROVE  CallsRow(m)
<1> USE DEF CallsRow, Callees, GetOps, Sends, SendsAs, Calls, Empty
<1>1. CASE m \in UserMethods
  BY <1>1 DEF UserMethods
<1>2. CASE m \in GuildMethods
  BY <1>2 DEF GuildMethods
<1>3. CASE m \in BanAndMemberMethods
  BY <1>3 DEF BanAndMemberMethods
<1>4. CASE m \in MemberMethods
  BY <1>4 DEF MemberMethods
<1>5. CASE m \in MemberRoleMethods
  BY <1>5 DEF MemberRoleMethods
<1>6. CASE m \in ChannelListAndRoleMethods
  BY <1>6 DEF ChannelListAndRoleMethods
<1>7. CASE m \in PruneAndIntegrationMethods
  BY <1>7 DEF PruneAndIntegrationMethods
<1>8. CASE m \in ImageAuditEmojiMethods
  BY <1>8 DEF ImageAuditEmojiMethods
<1>9. CASE m \in EmojiMethods
  BY <1>9 DEF EmojiMethods
<1>10. CASE m \in TemplateUseMethods
  BY <1>10 DEF TemplateUseMethods
<1>11. CASE m \in TemplateMethods
  BY <1>11 DEF TemplateMethods
<1>12. CASE m \in ChannelMethods
  BY <1>12 DEF ChannelMethods
<1>13. CASE m \in SendMethods
  BY <1>13 DEF SendMethods
<1>14. CASE m \in EditAndPinMethods
  BY <1>14 DEF EditAndPinMethods
<1>15. CASE m \in FileAndPermissionMethods
  BY <1>15 DEF FileAndPermissionMethods
<1>16. CASE m \in InviteAndGatewayMethods
  BY <1>16 DEF InviteAndGatewayMethods
<1>17. CASE m \in WebhookMethods
  BY <1>17 DEF WebhookMethods
<1>18. CASE m \in WebhookMessageMethods
  BY <1>18 DEF WebhookMessageMethods
<1>19. CASE m \in ReactionMethods
  BY <1>19 DEF ReactionMethods
<1>20. CASE m \in ThreadStartMethods
  BY <1>20 DEF ThreadStartMethods
<1>21. CASE m \in ThreadMemberMethods
  BY <1>21 DEF ThreadMemberMethods
<1>22. CASE m \in ThreadListMethods
  BY <1>22 DEF ThreadListMethods
<1>23. CASE m \in ArchivedThreadMethods
  BY <1>23 DEF ArchivedThreadMethods
<1>24. CASE m \in CommandMethods
  BY <1>24 DEF CommandMethods
<1>25. CASE m \in CommandListMethods
  BY <1>25 DEF CommandListMethods
<1>26. CASE m \in CommandPermissionMethods
  BY <1>26 DEF CommandPermissionMethods
<1>27. CASE m \in InteractionMethods
  BY <1>27 DEF InteractionMethods
<1>28. CASE m \in StageAndScheduledEventMethods
  BY <1>28 DEF StageAndScheduledEventMethods
<1>29. CASE m \in OnboardingAndRuleMethods
  BY <1>29 DEF OnboardingAndRuleMethods
<1>30. CASE m \in RoleConnectionAndPollMethods
  BY <1>30 DEF RoleConnectionAndPollMethods
<1>31. CASE m \in EntitlementMethods
  BY <1>31 DEF EntitlementMethods
<1>32. CASE m \in OAuth2Methods
  BY <1>32 DEF OAuth2Methods
<1>33. CASE m \in PermissionMethods
  BY <1>33 DEF PermissionMethods
<1> HIDE DEF CallsRow
<1> QED
  BY <1>1, <1>2, <1>3, <1>4, <1>5, <1>6, <1>7, <1>8, <1>9, <1>10, <1>11, <1>12, <1>13, <1>14,
     <1>15, <1>16, <1>17, <1>18, <1>19, <1>20, <1>21, <1>22, <1>23, <1>24, <1>25, <1>26, <1>27,
     <1>28, <1>29, <1>30, <1>31, <1>32, <1>33 DEF Methods

-----------------------------------------------------------------------------
(***************************************************************************)
(* What follows for the requests made of the rows.                         *)
(***************************************************************************)
\* The arguments a method may be called with, and the requests it may make.
Arguments(m) == [(Segments(m.path) \cup Segments(m.key)) \cap Param -> Id]

Requests ==
    UNION {{Request(m, args) : args \in Arguments(m)} : m \in {m \in Methods : m.path # <<>>}}

\* A key that is filled in keeps the literal segments, and has arguments where it
\* had their names: the two cannot be confused.
LEMMA Filled ==
    ASSUME NEW m \in Methods, NEW args \in Arguments(m), NEW i \in DOMAIN m.key
    PROVE  /\ DOMAIN Fill(m.key, args) = DOMAIN m.key
           /\ m.key[i] \in Param =>
                  /\ m.key[i] \in DOMAIN args
                  /\ Fill(m.key, args)[i] = args[m.key[i]]
                  /\ Fill(m.key, args)[i] \in Id
           /\ m.key[i] \notin Param => Fill(m.key, args)[i] = m.key[i] /\ m.key[i] \notin Id
<1>1. m.key[i] \in Segments(m.key)
  BY DEF Segments
<1>2. CASE m.key[i] \in Param
  BY <1>1, <1>2 DEF Arguments, Fill
<1>3. CASE m.key[i] \notin Param
  <2>1. m.key[i] \notin Id
    BY <1>1, IdAssumption
  <2> QED
    BY <1>3, <2>1 DEF Arguments, Fill
<1> QED
  BY <1>2, <1>3

\* Two requests with one key come from rows with one key, and agree in the
\* arguments it names.
LEMMA SameKey ==
    ASSUME NEW m \in Methods, NEW n \in Methods, NEW a \in Arguments(m), NEW b \in Arguments(n),
           Fill(m.key, a) = Fill(n.key, b)
    PROVE  m.key = n.key /\ \A p \in Segments(m.key) \cap Param : a[p] = b[p]
<1>1. DOMAIN m.key = DOMAIN n.key
  BY DEF Fill
<1>2. \A i \in DOMAIN m.key : m.key[i] \in Param <=> n.key[i] \in Param
  BY <1>1, Filled
<1>3. \A i \in DOMAIN m.key : m.key[i] = n.key[i]
  <2> SUFFICES ASSUME NEW i \in DOMAIN m.key PROVE m.key[i] = n.key[i]
    OBVIOUS
  <2>1. CASE m.key[i] \notin Param
    BY <1>1, <1>2, <2>1, Filled
  <2>2. CASE m.key[i] \in Param
    <3>1. /\ i # 1
          /\ m.key[i] = (IF m.key[i-1] \in Param THEN "token" ELSE After(m.key[i-1]))
          /\ n.key[i] = (IF n.key[i-1] \in Param THEN "token" ELSE After(n.key[i-1]))
      BY <1>1, <1>2, <2>2, Names DEF NamesFollow
    <3>2. i - 1 \in DOMAIN m.key
      <4>1. DOMAIN m.key = 1..Len(m.key) /\ Len(m.key) \in 0..9
        BY KeysAreSequences DEF KeySequence
      <4> QED
        BY <3>1, <4>1
    <3>3. m.key[i-1] \notin Param => m.key[i-1] = n.key[i-1]
      BY <1>1, <1>2, <3>2, Filled
    <3> QED
      BY <1>2, <3>1, <3>2, <3>3
  <2> QED
    BY <2>1, <2>2
<1>4. m.key = n.key
  <2>1. m.key = [i \in DOMAIN m.key |-> m.key[i]] /\ n.key = [i \in DOMAIN n.key |-> n.key[i]]
    BY KeysAreSequences DEF KeySequence
  <2> QED
    BY <1>1, <1>3, <2>1
<1>5. ASSUME NEW p \in Segments(m.key) \cap Param PROVE a[p] = b[p]
  <2>1. PICK i \in DOMAIN m.key : m.key[i] = p
    BY DEF Segments
  <2> QED
    BY <1>4, <2>1, Filled
<1> QED
  BY <1>4, <1>5

\* Rows with one key have one address, or are listed in SharedKey.
LEMMA SameAddress ==
    ASSUME NEW m \in Methods, NEW n \in Methods, m.path # <<>>, n.path # <<>>, m.key = n.key
    PROVE  m.path = n.path \/ \E S \in SharedKey : {m.op, n.op} \subseteq S
<1>1. CASE Shares(m.key)
  <2>1. \/ {m.op, n.op} \subseteq UserSharers
        \/ {m.op, n.op} \subseteq ReactionSharers
        \/ {m.op, n.op} \subseteq MemberSharers
        \/ {m.op, n.op} \subseteq GuildEmojiSharers
        \/ {m.op, n.op} \subseteq ApplicationEmojiSharers
        \/ {m.op, n.op} \subseteq TokenSharers
    BY <1>1, Sharers DEF Shares, OnlySharers
  <2>2. {UserSharers, ReactionSharers, MemberSharers, GuildEmojiSharers, ApplicationEmojiSharers,
         TokenSharers} \subseteq SharedKey
    BY DEF SharedKey, UserSharers, ReactionSharers, MemberSharers, GuildEmojiSharers,
           ApplicationEmojiSharers, TokenSharers
  <2> QED
    BY <2>1, <2>2
<1>2. CASE ~Shares(m.key)
  <2>1. CASE m.key[1] = "GET"
    BY <1>2, <2>1, Addresses DEF AddressFollows
  <2>2. CASE m.key[1] # "GET"
    <3>1. DOMAIN m.path = DOMAIN n.path /\ \A i \in DOMAIN m.path : m.path[i] = n.path[i]
      BY <1>2, <2>2, Addresses DEF AddressFollows
    <3>2. m.path = [i \in DOMAIN m.path |-> m.path[i]] /\ n.path = [i \in DOMAIN n.path |-> n.path[i]]
      BY PathsAreSequences DEF PathSequence
    <3> QED
      BY <3>1, <3>2
  <2> QED
    BY <2>1, <2>2
<1> QED
  BY <1>1, <1>2

\* Requests with one key are for one guild, channel, webhook and application, or of
\* methods listed in AnyOfThem.
LEMMA SameMajor ==
    ASSUME NEW m \in Methods, NEW n \in Methods, NEW a \in Arguments(m), NEW b \in Arguments(n),
           Fill(m.key, a) = Fill(n.key, b)
    PROVE  Request(m, a).major = Request(n, b).major \/ {m.op, n.op} \subseteq AnyOfThem
<1>1. m.key = n.key /\ \A p \in Segments(m.key) \cap Param : a[p] = b[p]
  BY SameKey
<1>2. CASE ForAny(m.key)
  BY <1>1, <1>2, Majors DEF MajorKept
<1>3. CASE ~ForAny(m.key)
  <2>1. /\ Segments(m.path) \cap Major = Segments(m.key) \cap Major
        /\ Segments(n.path) \cap Major = Segments(m.key) \cap Major
    BY <1>1, <1>3, Majors DEF MajorKept
  <2>2. \A p \in Segments(m.path) \cap Major : a[p] = b[p]
    BY <1>1, <2>1 DEF Major, Param
  <2> QED
    BY <2>1, <2>2 DEF Request
<1> QED
  BY <1>2, <1>3

\* A method has one key for an address, unless it is counted by object.
LEMMA OneKey ==
    ASSUME NEW m \in Methods, NEW n \in Methods, m.path # <<>>,
           m.op = n.op, m.path = n.path, m.op \notin PerObject
    PROVE  m.key = n.key
<1>1. CASE m.op \in OwnKey
  <2>1. GlobalCommands # GuildCommands
    BY DEF GlobalCommands, GuildCommands
  <2> QED
    BY <1>1, <2>1, OwnKeysOfRows DEF OwnKeys, OwnKey
<1>2. CASE m.op \notin OwnKey
  <2>1. DOMAIN m.key = DOMAIN n.key /\ \A i \in DOMAIN m.key : m.key[i] = n.key[i]
    BY <1>2, KeysFollow DEF KeyFollows
  <2>2. m.key = [i \in DOMAIN m.key |-> m.key[i]] /\ n.key = [i \in DOMAIN n.key |-> n.key[i]]
    BY KeysAreSequences DEF KeySequence
  <2> QED
    BY <2>1, <2>2
<1> QED
  BY <1>1, <1>2

\* Two requests of such a method for one guild, channel, webhook and application
\* have one key.
LEMMA OneKeyFilled ==
    ASSUME NEW m \in Methods, NEW n \in Methods, NEW a \in Arguments(m), NEW b \in Arguments(n),
           m.path # <<>>, m.op = n.op, m.path = n.path, m.op \notin PerObject,
           Request(m, a).major = Request(n, b).major
    PROVE  Fill(m.key, a) = Fill(n.key, b)
<1>1. m.key = n.key
  BY OneKey
<1>2. \A p \in Segments(m.key) \cap Param : p \in Segments(m.path) \cap Major
  BY KeysHaveMajor, Majors DEF OnlyMajorInKey, MajorKept
<1>3. \A p \in Segments(m.path) \cap Major : a[p] = b[p]
  BY DEF Request
<1>4. DOMAIN a = DOMAIN b
  BY <1>1 DEF Arguments
<1>5. \A i \in DOMAIN m.key : m.key[i] \in DOMAIN a => a[m.key[i]] = b[m.key[i]]
  BY <1>2, <1>3 DEF Arguments, Segments
<1> QED
  BY <1>1, <1>4, <1>5 DEF Fill

\* What the custom limit looks for is not an argument.
LEMMA ReactionWords == {"reactions", Empty} \cap (Id \cup Param) = {}
<1>1. PICK m \in Methods : m = SendsAs("MessageReactions", "GET",
          <<"channels", "channelID", "messages", "messageID", "reactions", "emojiID">>,
          <<"channels", "channelID", "messages", Empty, "reactions", Empty, Empty>>)
  BY DEF Methods, ReactionMethods
<1>2. "reactions" \in Segments(m.key) /\ Empty \in Segments(m.key)
  BY <1>1 DEF SendsAs, Segments
<1>3. "reactions" \notin Id /\ Empty \notin Id
  BY <1>2, IdAssumption
<1> QED
  BY <1>3 DEF Param, Empty

\* When two sequences start with the same four elements.
LEMMA FirstFour ==
    ASSUME NEW s, NEW t
    PROVE  SubSeq(s, 1, 4) = SubSeq(t, 1, 4) <=> \A i \in 1..4 : s[i] = t[i]
<1> DEFINE S == {s[i] : i \in 1..4} \cup {t[i] : i \in 1..4}
<1>1. /\ SubSeq(s, 1, 4) \in Seq(S) /\ Len(SubSeq(s, 1, 4)) = 4
      /\ \A i \in 1..4 : SubSeq(s, 1, 4)[i] = s[i]
  <2>1. \A i \in 1..4 : s[i] \in S
    OBVIOUS
  <2> HIDE DEF S
  <2>2. /\ SubSeq(s, 1, 4) \in Seq(S)
        /\ Len(SubSeq(s, 1, 4)) = IF 1 <= 4 THEN 4 - 1 + 1 ELSE 0
        /\ \A i \in 1..4 - 1 + 1 : SubSeq(s, 1, 4)[i] = s[1 + i - 1]
    BY <2>1, SubSeqProperties
  <2> QED
    BY <2>2
<1>2. /\ SubSeq(t, 1, 4) \in Seq(S) /\ Len(SubSeq(t, 1, 4)) = 4
      /\ \A i \in 1..4 : SubSeq(t, 1, 4)[i] = t[i]
  <2>1. \A i \in 1..4 : t[i] \in S
    OBVIOUS
  <2> HIDE DEF S
  <2>2. /\ SubSeq(t, 1, 4) \in Seq(S)
        /\ Len(SubSeq(t, 1, 4)) = IF 1 <= 4 THEN 4 - 1 + 1 ELSE 0
        /\ \A i \in 1..4 - 1 + 1 : SubSeq(t, 1, 4)[i] = t[1 + i - 1]
    BY <2>1, SubSeqProperties
  <2> QED
    BY <2>2
<1> HIDE DEF S
<1> QED
  BY <1>1, <1>2

\* The custom limit's key ends as it should, and no other does.
LEMMA ReactionKeys ==
    ASSUME NEW m \in Methods, NEW args \in Arguments(m)
    PROVE  m.op \in ReactionSharers
           <=> IsSuffix(<<Empty, "reactions", Empty, Empty>>, Fill(m.key, args))
<1> DEFINE key == Fill(m.key, args)
           n == Len(m.key)
<1>1. n \in Nat /\ DOMAIN m.key = 1..n /\ key = [i \in 1..n |-> key[i]]
  BY KeysAreSequences DEF KeySequence, Fill
<1>2. Len(key) = n
  BY <1>1
<1>3. IsSuffix(<<Empty, "reactions", Empty, Empty>>, key) <=>
          /\ n >= 4
          /\ key[n] = Empty /\ key[n-1] = Empty /\ key[n-2] = "reactions" /\ key[n-3] = Empty
  <2> DEFINE suffix == <<Empty, "reactions", Empty, Empty>>
  <2>1. Len(Reverse(suffix)) = 4 /\ Len(Reverse(key)) = n
    BY <1>1, <1>2 DEF Reverse
  <2>2. /\ Reverse(suffix)[1] = Empty /\ Reverse(suffix)[2] = Empty
        /\ Reverse(suffix)[3] = "reactions" /\ Reverse(suffix)[4] = Empty
    BY DEF Reverse
  <2>3. ASSUME n >= 4
        PROVE  /\ Reverse(key)[1] = key[n] /\ Reverse(key)[2] = key[n-1]
               /\ Reverse(key)[3] = key[n-2] /\ Reverse(key)[4] = key[n-3]
    <3> HIDE DEF key, n
    <3>1. Reverse(key) = [i \in 1..n |-> key[(n - i) + 1]]
      BY <1>2 DEF Reverse
    <3>2. 1 \in 1..n /\ 2 \in 1..n /\ 3 \in 1..n /\ 4 \in 1..n
      BY <1>1, <2>3
    <3>3. (n - 1) + 1 = n /\ (n - 2) + 1 = n - 1 /\ (n - 3) + 1 = n - 2 /\ (n - 4) + 1 = n - 3
      BY <1>1
    <3> QED
      BY <3>1, <3>2, <3>3
  <2>4. IsSuffix(suffix, key) <=>
            n >= 4 /\ SubSeq(Reverse(suffix), 1, 4) = SubSeq(Reverse(key), 1, 4)
    <3> HIDE DEF suffix, key, n
    <3> QED
      BY <1>1, <2>1 DEF IsSuffix, IsPrefix
  <2>5. \A i \in 1..4 : i \in {1, 2, 3, 4}
    OBVIOUS
  <2>6. ASSUME n >= 4
        PROVE  (\A i \in 1..4 : Reverse(suffix)[i] = Reverse(key)[i]) <=>
               (key[n] = Empty /\ key[n-1] = Empty /\ key[n-2] = "reactions" /\ key[n-3] = Empty)
    <3> HIDE DEF suffix, key, n
    <3> QED
      BY <2>2, <2>3, <2>5, <2>6
  <2> HIDE DEF key, n
  <2> QED
    BY <2>4, <2>6, FirstFour
<1>4. \A i \in 1..n : key[i] \in {"reactions", Empty} => m.key[i] = key[i]
  BY <1>1, Filled, ReactionWords
<1>5. ASSUME m.op \in ReactionSharers
      PROVE  n >= 4 /\ key[n] = Empty /\ key[n-1] = Empty /\ key[n-2] = "reactions" /\ key[n-3] = Empty
  <2>1. m.key = <<"channels", "channelID", "messages", Empty, "reactions", Empty, Empty>>
    BY <1>5, ReactionRows DEF ReactionRow
  <2>2. n = 7
    BY <2>1
  <2>3. \A i \in 4..7 : key[i] = m.key[i]
    BY <1>1, <2>1, <2>2, Filled, ReactionWords
  <2> QED
    BY <2>1, <2>2, <2>3
<1>6. ASSUME n >= 4, key[n-1] = Empty, key[n-2] = "reactions"
      PROVE  m.op \in ReactionSharers
  <2>1. n - 2 \in 1..n /\ n - 1 \in 1..n /\ (n - 2) + 1 = n - 1
    BY <1>1, <1>6
  <2>2. m.key[n-2] = "reactions" /\ m.key[n-1] = Empty
    BY <1>4, <1>6, <2>1
  <2> HIDE DEF n
  <2> QED
    BY <1>1, <2>1, <2>2, ReactionRows DEF ReactionRow
<1> QED
  BY <1>3, <1>5, <1>6

-----------------------------------------------------------------------------
(***************************************************************************)
(* The calls.                                                              *)
(***************************************************************************)
\* What a call may be.
CallRecord ==
    [todo : Seq(Ops), request : Requests \cup {NoRequest}, sent : BOOLEAN, wrote : BOOLEAN,
     result : {"none", "ok", "error", "embeds"}, embeds : SUBSET {"Embed", "Embeds"}, reused : BOOLEAN]

\* A call with more than one method to carry out only reads before the last.
ReadsFirst(r) == \A i \in DOMAIN r.todo : i # Len(r.todo) => r.todo[i] \in GetOps

\* A request that changes something is the call's last.
WritesLast(r) ==
    /\ r.request # NoRequest /\ r.request.method # "GET" => r.todo = <<>>
    /\ r.wrote => r.todo = <<>> /\ r.request = NoRequest

\* A message is given to one method, which makes its request at once.
MessageOnce(r) ==
    /\ r.embeds # {} => r.todo = <<>> \/ \E op \in TakesMessage : r.todo = <<op>>
    /\ r.embeds = {"Embed", "Embeds"} /\ ~r.reused => r.todo = <<>>
    /\ r.result = "embeds" => r.reused

CallInv(r) ==
    /\ r \in CallRecord
    /\ r.sent => r.request # NoRequest
    /\ r.result = "error" => ~r.wrote
    /\ ReadsFirst(r)
    /\ WritesLast(r)
    /\ MessageOnce(r)

\* A key's bucket is held by one caller at a time.
OneHolder ==
    \A c, d \in Caller :
        c # d /\ call[c].sent /\ call[d].sent => call[c].request.key # call[d].request.key

\* The inductive invariant.
IInv ==
    /\ call \in [Caller -> CallRecord]
    /\ \A c \in Caller : CallInv(call[c])
    /\ OneHolder

\* The methods that others call exist.
LEMMA CalleesExist == Callees \cup TakesMessage \subseteq Ops
<1>1. \A m \in Methods : m.op \in Ops
  BY DEF Ops
<1>2. {"User", "UserAvatarDecode"} \subseteq Ops
  <2>1. {"User", "UserAvatarDecode"} \subseteq {m.op : m \in UserMethods}
    BY DEF UserMethods, Sends, SendsAs, Calls
  <2> QED
    BY <1>1, <2>1 DEF Methods
<1>3. {"Guild", "GuildEditPatch"} \subseteq Ops
  <2>1. {"Guild", "GuildEditPatch"} \subseteq {m.op : m \in GuildMethods}
    BY DEF GuildMethods, Sends, SendsAs, Calls
  <2> QED
    BY <1>1, <2>1 DEF Methods
<1>4. {"GuildBanCreateWithReason", "GuildMember"} \subseteq Ops
  <2>1. {"GuildBanCreateWithReason", "GuildMember"} \subseteq {m.op : m \in BanAndMemberMethods}
    BY DEF BanAndMemberMethods, Sends, SendsAs, Calls
  <2> QED
    BY <1>1, <2>1 DEF Methods
<1>5. {"GuildMemberDeleteWithReason", "GuildMemberEdit"} \subseteq Ops
  <2>1. {"GuildMemberDeleteWithReason", "GuildMemberEdit"} \subseteq {m.op : m \in MemberMethods}
    BY DEF MemberMethods, Sends, SendsAs, Calls
  <2> QED
    BY <1>1, <2>1 DEF Methods
<1>6. {"GuildChannelCreateComplex"} \subseteq Ops
  <2>1. {"GuildChannelCreateComplex"} \subseteq {m.op : m \in ChannelListAndRoleMethods}
    BY DEF ChannelListAndRoleMethods, Sends, SendsAs, Calls
  <2> QED
    BY <1>1, <2>1 DEF Methods
<1>7. {"GuildIconGet", "GuildSplashGet"} \subseteq Ops
  <2>1. {"GuildIconGet", "GuildSplashGet"} \subseteq {m.op : m \in ImageAuditEmojiMethods}
    BY DEF ImageAuditEmojiMethods, Sends, SendsAs, Calls
  <2> QED
    BY <1>1, <2>1 DEF Methods
<1>8. {"Channel", "ChannelEdit"} \subseteq Ops
  <2>1. {"Channel", "ChannelEdit"} \subseteq {m.op : m \in ChannelMethods}
    BY DEF ChannelMethods, Sends, SendsAs, Calls
  <2> QED
    BY <1>1, <2>1 DEF Methods
<1>9. {"ChannelMessageSendComplex", "ChannelMessageSendEmbeds",
        "ChannelMessageSendEmbedsReply"} \subseteq Ops
  <2>1. {"ChannelMessageSendComplex", "ChannelMessageSendEmbeds",
        "ChannelMessageSendEmbedsReply"} \subseteq {m.op : m \in SendMethods}
    BY DEF SendMethods, Sends, SendsAs, Calls
  <2> QED
    BY <1>1, <2>1 DEF Methods
<1>10. {"ChannelMessageDelete", "ChannelMessageEditComplex",
        "ChannelMessageEditEmbeds"} \subseteq Ops
  <2>1. {"ChannelMessageDelete", "ChannelMessageEditComplex",
        "ChannelMessageEditEmbeds"} \subseteq {m.op : m \in EditAndPinMethods}
    BY DEF EditAndPinMethods, Sends, SendsAs, Calls
  <2> QED
    BY <1>1, <2>1 DEF Methods
<1>11. {"VoiceRegions"} \subseteq Ops
  <2>1. {"VoiceRegions"} \subseteq {m.op : m \in InviteAndGatewayMethods}
    BY DEF InviteAndGatewayMethods, Sends, SendsAs, Calls
  <2> QED
    BY <1>1, <2>1 DEF Methods
<1>12. {"WebhookExecute", "WebhookMessage", "WebhookMessageDelete",
        "WebhookMessageEdit", "webhookExecute"} \subseteq Ops
  <2>1. {"WebhookExecute", "WebhookMessage", "WebhookMessageDelete",
        "WebhookMessageEdit", "webhookExecute"} \subseteq {m.op : m \in WebhookMessageMethods}
    BY DEF WebhookMessageMethods, Sends, SendsAs, Calls
  <2> QED
    BY <1>1, <2>1 DEF Methods
<1>13. {"ForumThreadStartComplex", "MessageThreadStartComplex",
        "ThreadStartComplex"} \subseteq Ops
  <2>1. {"ForumThreadStartComplex", "MessageThreadStartComplex",
        "ThreadStartComplex"} \subseteq {m.op : m \in ThreadStartMethods}
    BY DEF ThreadStartMethods, Sends, SendsAs, Calls
  <2> QED
    BY <1>1, <2>1 DEF Methods
<1> QED
  BY <1>2, <1>3, <1>4, <1>5, <1>6, <1>7, <1>8, <1>9, <1>10, <1>11, <1>12, <1>13 DEF Callees, TakesMessage

\* A call that is not made yet.
LEMMA IdleFields ==
    /\ Idle \in CallRecord
    /\ Idle.todo = <<>> /\ Idle.request = NoRequest /\ ~Idle.sent /\ ~Idle.wrote
    /\ Idle.result = "none" /\ Idle.embeds = {} /\ ~Idle.reused
BY DEF Idle, CallRecord

\* Initially no call is made.
LEMMA InitInv == Init => IInv
<1> SUFFICES ASSUME Init PROVE IInv
  OBVIOUS
<1>1. CallInv(Idle)
  BY IdleFields DEF CallInv, ReadsFirst, WritesLast, MessageOnce
<1>2. call = [c \in Caller |-> Idle] /\ Idle \in CallRecord /\ ~Idle.sent
  BY IdleFields DEF Init
<1> QED
  BY <1>1, <1>2 DEF IInv, OneHolder

\* A step of one caller keeps the invariant, if its own record does and it takes no
\* bucket that is held.
LEMMA StepOfOne ==
    ASSUME IInv, NEW c \in Caller, NEW r, CallInv(r), call' = [call EXCEPT ![c] = r],
           r.sent => (call[c].sent /\ r.request = call[c].request) \/ ~Held(r.request.key)
    PROVE  IInv'
<1>1. call' \in [Caller -> CallRecord]
  BY DEF IInv, CallInv
<1>2. call'[c] = r /\ \A d \in Caller \ {c} : call'[d] = call[d]
  BY DEF IInv
<1>3. \A d \in Caller : CallInv(call'[d])
  BY <1>2 DEF IInv
<1>4. \A d \in Caller \ {c} : r.sent /\ call[d].sent => r.request.key # call[d].request.key
  BY DEF IInv, OneHolder, Held
<1>5. OneHolder'
  BY <1>2, <1>4 DEF IInv, OneHolder
<1> QED
  BY <1>1, <1>3, <1>5 DEF IInv

\* A call the program makes starts afresh, with one method to carry out.
LEMMA Entered ==
    ASSUME NEW op, NEW r, r \in CallRecord, r.todo = <<op>>, r.request = NoRequest,
           ~r.sent, ~r.wrote, r.result = "none",
           r.embeds # {} => op \in TakesMessage,
           r.embeds = {"Embed", "Embeds"} => r.reused
    PROVE  CallInv(r)
<1>1. ReadsFirst(r)
  BY DEF ReadsFirst
<1> QED
  BY <1>1 DEF CallInv, WritesLast, MessageOnce

\* The program calls a method.
LEMMA EnterStep ==
    ASSUME IInv, NEW c \in Caller, NEW op \in Callable, Enter(c, op)
    PROVE  IInv'
<1> DEFINE r == [Idle EXCEPT !.todo = <<op>>]
<1>1. <<op>> \in Seq(Ops)
  BY DEF Callable
<1>2. /\ r \in CallRecord /\ r.todo = <<op>> /\ r.request = NoRequest /\ ~r.sent /\ ~r.wrote
      /\ r.result = "none" /\ r.embeds = {}
  BY <1>1, IdleFields DEF CallRecord
<1>3. call' = [call EXCEPT ![c] = r]
  BY DEF Enter
<1> HIDE DEF r
<1>4. CallInv(r)
  BY <1>2, Entered
<1> QED
  BY <1>2, <1>3, <1>4, StepOfOne

\* The program calls a method with a new message, which has one of the two fields.
LEMMA EnterWithMessageStep ==
    ASSUME IInv, NEW c \in Caller, NEW op \in TakesMessage, EnterWithMessage(c, op)
    PROVE  IInv'
<1>1. PICK embeds \in {{"Embed"}, {"Embeds"}} :
          call' = [call EXCEPT ![c] = [Idle EXCEPT !.todo = <<op>>, !.embeds = embeds]]
  BY DEF EnterWithMessage
<1> DEFINE r == [Idle EXCEPT !.todo = <<op>>, !.embeds = embeds]
<1>2. <<op>> \in Seq(Ops) /\ embeds \in SUBSET {"Embed", "Embeds"} /\ embeds # {"Embed", "Embeds"}
  BY CalleesExist
<1>3. /\ r \in CallRecord /\ r.todo = <<op>> /\ r.request = NoRequest /\ ~r.sent /\ ~r.wrote
      /\ r.result = "none" /\ r.embeds = embeds
  BY <1>2, IdleFields DEF CallRecord
<1>4. call' = [call EXCEPT ![c] = r]
  BY <1>1
<1> HIDE DEF r
<1>5. CallInv(r)
  BY <1>2, <1>3, Entered
<1> QED
  BY <1>3, <1>4, <1>5, StepOfOne

\* The program gives a message to a method again: it is reused from then on.
LEMMA EnterAgainStep ==
    ASSUME IInv, NEW c \in Caller, EnterAgain(c)
    PROVE  IInv'
<1>1. PICK op \in TakesMessage :
          call' = [call EXCEPT ![c] =
                      [Idle EXCEPT !.todo = <<op>>, !.embeds = call[c].embeds, !.reused = TRUE]]
  BY DEF EnterAgain
<1> DEFINE r == [Idle EXCEPT !.todo = <<op>>, !.embeds = call[c].embeds, !.reused = TRUE]
<1>2. <<op>> \in Seq(Ops) /\ call[c].embeds \in SUBSET {"Embed", "Embeds"}
  BY CalleesExist DEF IInv, CallRecord
<1>3. /\ r \in CallRecord /\ r.todo = <<op>> /\ r.request = NoRequest /\ ~r.sent /\ ~r.wrote
      /\ r.result = "none" /\ r.reused
  BY <1>2, IdleFields DEF CallRecord
<1>4. call' = [call EXCEPT ![c] = r]
  BY <1>1
<1> HIDE DEF r
<1>5. CallInv(r)
  BY <1>3, Entered
<1> QED
  BY <1>3, <1>4, <1>5, StepOfOne

\* Of the forms of the next method to carry out, each is a row of the table.
LEMMA NextRow ==
    ASSUME IInv, NEW c \in Caller, call[c].todo # <<>>,
           NEW m \in Named[Head(call[c].todo)]
    PROVE  m \in Methods /\ m.op = Head(call[c].todo) /\ m.op \in Ops
<1>1. Head(call[c].todo) \in Ops
  BY DEF IInv, CallRecord
<1> QED
  BY <1>1 DEF Named

\* What is left of a call after its next method; nothing, unless that one only reads.
LEMMA LastUnlessGet ==
    ASSUME NEW r, CallInv(r), r.todo # <<>>
    PROVE  /\ Tail(r.todo) \in Seq(Ops)
           /\ Head(r.todo) \notin GetOps => Tail(r.todo) = <<>>
           /\ \A i \in DOMAIN Tail(r.todo) : i # Len(Tail(r.todo)) => Tail(r.todo)[i] \in GetOps
<1>1. r.todo \in Seq(Ops)
  BY DEF CallInv, CallRecord
<1>2. /\ Tail(r.todo) \in Seq(Ops) /\ Len(Tail(r.todo)) = Len(r.todo) - 1
      /\ \A i \in 1..Len(Tail(r.todo)) : Tail(r.todo)[i] = r.todo[i+1]
  BY <1>1, HeadTailProperties
<1>3. \A i \in 1..Len(r.todo) : i # Len(r.todo) => r.todo[i] \in GetOps
  BY <1>1 DEF CallInv, ReadsFirst
<1>4. Head(r.todo) \notin GetOps => Tail(r.todo) = <<>>
  <2>1. Len(r.todo) \in Nat \ {0} /\ Head(r.todo) = r.todo[1]
    BY <1>1
  <2>2. 1 \in 1..Len(r.todo)
    BY <2>1
  <2>3. Head(r.todo) \notin GetOps => Len(r.todo) = 1
    BY <1>3, <2>1, <2>2
  <2>4. Head(r.todo) \notin GetOps => Len(Tail(r.todo)) = 0
    BY <1>2, <2>3
  <2> QED
    BY <1>2, <2>4, EmptySeq
<1>5. \A i \in 1..Len(Tail(r.todo)) : i # Len(Tail(r.todo)) => Tail(r.todo)[i] \in GetOps
  BY <1>1, <1>2, <1>3
<1> QED
  BY <1>2, <1>4, <1>5

\* A method that makes no request itself is the call's last, so that the methods it
\* calls are all that is left to carry out.
LEMMA DelegateStep ==
    ASSUME IInv, NEW c \in Caller, Delegate(c)
    PROVE  IInv'
<1>1. PICK m \in Named[Head(call[c].todo)] :
          /\ m.path = <<>>
          /\ LET todo == m.calls \o Tail(call[c].todo)
             IN call' = [call EXCEPT ![c].todo = todo,
                                     ![c].result = IF todo = <<>> THEN "ok" ELSE "none"]
  BY DEF Delegate
<1>2. m \in Methods /\ m.op = Head(call[c].todo)
  BY NextRow DEF Delegate
<1>3. m.op \notin GetOps /\ m.op \notin TakesMessage
  BY <1>1, <1>2, RequestRows DEF RequestRow
<1>4. CallInv(call[c]) /\ call[c].todo # <<>> /\ call[c].request = NoRequest
  BY DEF IInv, Delegate
<1>5. Tail(call[c].todo) = <<>>
  BY <1>2, <1>3, <1>4, LastUnlessGet
<1>6. m.calls \in Seq(Ops) /\ \A i \in DOMAIN m.calls : i # Len(m.calls) => m.calls[i] \in GetOps
  <2>1. GetOps \subseteq Ops /\ Callees \subseteq Ops /\ {"Channel", "Guild"} \subseteq GetOps
    BY CalleesExist DEF GetOps, Callees
  <2>2. CASE m.calls = <<>>
    BY <2>2
  <2>3. ASSUME NEW op \in Callees, m.calls = <<op>>
        PROVE  m.calls \in Seq(Ops) /\ \A i \in DOMAIN m.calls : i # Len(m.calls) => m.calls[i] \in GetOps
    BY <2>1, <2>3
  <2>4. ASSUME NEW get \in GetOps, NEW op \in Callees, m.calls = <<get, op>>
        PROVE  m.calls \in Seq(Ops) /\ \A i \in DOMAIN m.calls : i # Len(m.calls) => m.calls[i] \in GetOps
    BY <2>1, <2>4
  <2>5. ASSUME NEW op \in Callees, m.calls = <<"Channel", "Guild", op>>
        PROVE  m.calls \in Seq(Ops) /\ \A i \in DOMAIN m.calls : i # Len(m.calls) => m.calls[i] \in GetOps
    BY <2>1, <2>5
  <2> QED
    BY <1>2, <2>2, <2>3, <2>4, <2>5, CallsRows DEF CallsRow
<1>7. m.calls \o Tail(call[c].todo) = m.calls
  BY <1>5, <1>6, ConcatEmptySeq
<1>8. call[c].embeds = {}
  BY <1>2, <1>3, <1>4 DEF CallInv, MessageOnce
<1>9. ~call[c].wrote /\ ~call[c].sent
  BY <1>4 DEF CallInv, WritesLast
<1> DEFINE r == [call[c] EXCEPT !.todo = m.calls, !.result = IF m.calls = <<>> THEN "ok" ELSE "none"]
<1>10. call' = [call EXCEPT ![c] = r]
  BY <1>1, <1>7 DEF IInv
<1>11. /\ r \in CallRecord /\ r.todo = m.calls /\ r.result \in {"ok", "none"}
       /\ r.request = NoRequest /\ ~r.sent /\ ~r.wrote /\ r.embeds = {}
  BY <1>4, <1>6, <1>8, <1>9 DEF CallInv, CallRecord
<1> HIDE DEF r
<1>12. CallInv(r)
  <2>1. ReadsFirst(r)
    BY <1>6, <1>11 DEF ReadsFirst
  <2>2. WritesLast(r) /\ MessageOnce(r)
    BY <1>11 DEF WritesLast, MessageOnce
  <2> QED
    BY <1>11, <2>1, <2>2 DEF CallInv
<1> QED
  BY <1>10, <1>11, <1>12, StepOfOne

\* A call that ends without a request.
LEMMA RefuseStep ==
    ASSUME IInv, NEW c \in Caller, Refuse(c) \/ RefuseEmbeds(c)
    PROVE  IInv'
<1>1. CallInv(call[c]) /\ call[c].todo # <<>> /\ call[c].request = NoRequest
  BY DEF IInv, Refuse, RefuseEmbeds
<1>2. PICK result \in {"error", "embeds"} :
          /\ call' = [call EXCEPT ![c].todo = <<>>, ![c].result = result]
          /\ result = "embeds" => BothEmbeds(c)
  BY DEF Refuse, RefuseEmbeds
<1>3. ~call[c].wrote /\ ~call[c].sent
  BY <1>1 DEF CallInv, WritesLast
<1>4. result = "embeds" => call[c].reused
  BY <1>1, <1>2 DEF CallInv, MessageOnce, BothEmbeds
<1> DEFINE r == [call[c] EXCEPT !.todo = <<>>, !.result = result]
<1>5. call' = [call EXCEPT ![c] = r]
  BY <1>2 DEF IInv
<1>6. /\ r \in CallRecord /\ r.todo = <<>> /\ r.result = result
      /\ r.request = NoRequest /\ ~r.sent /\ ~r.wrote /\ r.reused = call[c].reused
  <2>1. <<>> \in Seq(Ops)
    OBVIOUS
  <2> QED
    BY <1>1, <1>3, <2>1 DEF CallInv, CallRecord
<1> HIDE DEF r
<1>7. CallInv(r)
  BY <1>4, <1>6 DEF CallInv, ReadsFirst, WritesLast, MessageOnce
<1> QED
  BY <1>5, <1>6, <1>7, StepOfOne

\* A request is made; one that changes something leaves no method to carry out.
LEMMA AskStep ==
    ASSUME IInv, NEW c \in Caller, Ask(c)
    PROVE  IInv'
<1>1. CallInv(call[c]) /\ call[c].todo # <<>> /\ call[c].request = NoRequest
  BY DEF IInv, Ask
<1>2. PICK m \in Named[Head(call[c].todo)] :
          /\ m.path # <<>>
          /\ ~(m.op \in TakesMessage /\ BothEmbeds(c))
          /\ \E args \in Arguments(m) :
                 call' = [call EXCEPT ![c].request = Request(m, args), ![c].todo = Tail(@),
                                      ![c].embeds = Normalised(@)]
  BY DEF Ask, Arguments
<1>3. PICK args \in Arguments(m) :
          call' = [call EXCEPT ![c].request = Request(m, args), ![c].todo = Tail(@),
                               ![c].embeds = Normalised(@)]
  BY <1>2
<1>4. m \in Methods /\ m.op = Head(call[c].todo)
  BY <1>1, NextRow
<1>5. Request(m, args) \in Requests /\ Request(m, args).method = m.method
  <2>1. Request(m, args) \in Requests
    BY <1>2, <1>4 DEF Requests
  <2> QED
    BY <2>1 DEF Request
<1>6. ~call[c].wrote /\ ~call[c].sent
  BY <1>1 DEF CallInv, WritesLast
<1>7. /\ Tail(call[c].todo) \in Seq(Ops)
      /\ m.op \notin GetOps => Tail(call[c].todo) = <<>>
      /\ \A i \in DOMAIN Tail(call[c].todo) :
             i # Len(Tail(call[c].todo)) => Tail(call[c].todo)[i] \in GetOps
  BY <1>1, <1>4, LastUnlessGet
<1>8. m.method # "GET" => Tail(call[c].todo) = <<>>
  BY <1>4, <1>7, RequestRows DEF RequestRow
<1>9. /\ Normalised(call[c].embeds) \in SUBSET {"Embed", "Embeds"}
      /\ Normalised(call[c].embeds) # {} => call[c].embeds # {}
  BY <1>1 DEF CallInv, CallRecord, Normalised
<1>10. call[c].embeds # {} => Tail(call[c].todo) = <<>>
  <2>1. \A op : Tail(<<op>>) = <<>>
    OBVIOUS
  <2>2. call[c].embeds # {} => \E op \in TakesMessage : call[c].todo = <<op>>
    BY <1>1 DEF CallInv, MessageOnce
  <2> QED
    BY <2>1, <2>2
<1> DEFINE r == [call[c] EXCEPT !.request = Request(m, args), !.todo = Tail(call[c].todo),
                                !.embeds = Normalised(call[c].embeds)]
<1>11. call' = [call EXCEPT ![c] = r]
  BY <1>3 DEF IInv
<1>12. /\ r \in CallRecord /\ r.todo = Tail(call[c].todo) /\ r.result = call[c].result
       /\ r.request = Request(m, args) /\ ~r.sent /\ ~r.wrote /\ r.reused = call[c].reused
       /\ r.embeds = Normalised(call[c].embeds)
  BY <1>1, <1>5, <1>6, <1>7, <1>9 DEF CallInv, CallRecord
<1> HIDE DEF r
<1>13. ReadsFirst(r)
  BY <1>7, <1>12 DEF ReadsFirst
<1>14. WritesLast(r)
  BY <1>5, <1>8, <1>12 DEF WritesLast
<1>15. MessageOnce(r)
  BY <1>1, <1>9, <1>10, <1>12 DEF MessageOnce, CallInv
<1> QED
  BY <1>11, <1>12, <1>13, <1>14, <1>15, StepOfOne DEF CallInv

\* A request is sent when no one holds its key's bucket.
LEMMA LockBucketStep ==
    ASSUME IInv, NEW c \in Caller, LockBucket(c)
    PROVE  IInv'
<1>1. CallInv(call[c]) /\ call[c].request # NoRequest
  BY DEF IInv, LockBucket
<1> DEFINE r == [call[c] EXCEPT !.sent = TRUE]
<1>2. call' = [call EXCEPT ![c] = r]
  BY DEF LockBucket, IInv
<1>3. /\ r \in CallRecord /\ r.todo = call[c].todo /\ r.request = call[c].request
      /\ r.wrote = call[c].wrote /\ r.result = call[c].result /\ r.embeds = call[c].embeds
      /\ r.reused = call[c].reused
  BY <1>1 DEF CallInv, CallRecord
<1> HIDE DEF r
<1>4. CallInv(r)
  BY <1>1, <1>3 DEF CallInv, ReadsFirst, WritesLast, MessageOnce
<1> QED
  BY <1>2, <1>3, <1>4, StepOfOne DEF LockBucket

\* A request that is answered.
LEMMA AnswerStep ==
    ASSUME IInv, NEW c \in Caller, Succeed(c) \/ Fail(c)
    PROVE  IInv'
<1>1. CallInv(call[c]) /\ call[c].sent /\ call[c].request # NoRequest /\ ~call[c].wrote
  BY DEF IInv, CallInv, WritesLast, Succeed, Fail
<1>2. CASE Succeed(c)
  <2> DEFINE wrote == call[c].wrote \/ call[c].request.method # "GET"
             result == IF call[c].todo = <<>> THEN "ok" ELSE "none"
             r == [call[c] EXCEPT !.request = NoRequest, !.sent = FALSE, !.wrote = wrote,
                                  !.result = result]
  <2>1. call' = [call EXCEPT ![c] = r]
    BY <1>2 DEF Succeed, Release, IInv
  <2>2. wrote \in BOOLEAN /\ (wrote => call[c].todo = <<>>)
    BY <1>1 DEF CallInv, WritesLast
  <2>3. /\ r \in CallRecord /\ r.todo = call[c].todo /\ r.request = NoRequest /\ ~r.sent
        /\ r.wrote = wrote /\ r.result \in {"ok", "none"} /\ r.embeds = call[c].embeds
        /\ r.reused = call[c].reused
    BY <1>1 DEF CallInv, CallRecord
  <2> HIDE DEF r, wrote, result
  <2>4. CallInv(r)
    BY <1>1, <2>2, <2>3 DEF CallInv, ReadsFirst, WritesLast, MessageOnce
  <2> QED
    BY <2>1, <2>3, <2>4, StepOfOne
<1>3. CASE Fail(c)
  <2> DEFINE r == [call[c] EXCEPT !.request = NoRequest, !.sent = FALSE, !.todo = <<>>,
                                  !.result = "error"]
  <2>1. call' = [call EXCEPT ![c] = r]
    BY <1>3 DEF Fail, Release, IInv
  <2>2. /\ r \in CallRecord /\ r.todo = <<>> /\ r.request = NoRequest /\ ~r.sent
        /\ ~r.wrote /\ r.result = "error" /\ r.embeds = call[c].embeds
        /\ r.reused = call[c].reused
    <3>1. <<>> \in Seq(Ops)
      OBVIOUS
    <3> QED
      BY <1>1, <3>1 DEF CallInv, CallRecord
  <2> HIDE DEF r
  <2>3. CallInv(r)
    BY <1>1, <2>2 DEF CallInv, ReadsFirst, WritesLast, MessageOnce
  <2> QED
    BY <2>1, <2>2, <2>3, StepOfOne
<1> QED
  BY <1>2, <1>3

\* The invariant is inductive.
LEMMA NextInv == IInv /\ [Next]_vars => IInv'
<1> SUFFICES ASSUME IInv, [Next]_vars PROVE IInv'
  OBVIOUS
<1>1. CASE UNCHANGED vars
  BY <1>1 DEF vars, IInv, OneHolder
<1>2. CASE Next
  <2>1. PICK c \in Caller :
            \/ \E op \in Callable : Enter(c, op)
            \/ \E op \in TakesMessage : EnterWithMessage(c, op)
            \/ EnterAgain(c)
            \/ Delegate(c)
            \/ Refuse(c) \/ RefuseEmbeds(c)
            \/ Ask(c)
            \/ LockBucket(c)
            \/ Succeed(c) \/ Fail(c)
    BY <1>2 DEF Next
  <2> QED
    BY <2>1, EnterStep, EnterWithMessageStep, EnterAgainStep, DelegateStep, RefuseStep, AskStep,
       LockBucketStep, AnswerStep
<1> QED
  BY <1>1, <1>2

-----------------------------------------------------------------------------
(***************************************************************************)
(* The properties.                                                         *)
(***************************************************************************)
\* A request under way was made of a row of the table.
LEMMA RequestOf ==
    ASSUME IInv, NEW c \in Caller, call[c].request # NoRequest
    PROVE  \E m \in Methods : \E args \in Arguments(m) :
               m.path # <<>> /\ call[c].request = Request(m, args)
<1>1. call[c].request \in Requests
  BY DEF IInv, CallRecord
<1> QED
  BY <1>1 DEF Requests

\* The type invariant.
LEMMA Typed == IInv => TypeOK
<1> SUFFICES ASSUME IInv, NEW c \in Caller
             PROVE  /\ Segments(call[c].todo) \subseteq Ops
                    /\ call[c].sent => call[c].request # NoRequest
                    /\ call[c].request # NoRequest =>
                           /\ call[c].request.op \in Ops
                           /\ Segments(call[c].request.key) \cap Param = {}
                    /\ call[c].result \in {"none", "ok", "error", "embeds"}
                    /\ call[c].embeds \subseteq {"Embed", "Embeds"}
  BY DEF TypeOK
<1>1. CallInv(call[c])
  BY DEF IInv
<1>2. Segments(call[c].todo) \subseteq Ops
  BY <1>1 DEF CallInv, CallRecord, Segments
<1>3. ASSUME call[c].request # NoRequest
      PROVE  call[c].request.op \in Ops /\ Segments(call[c].request.key) \cap Param = {}
  <2>1a. PICK m \in Methods : \E args \in Arguments(m) : call[c].request = Request(m, args)
    BY <1>3, RequestOf
  <2>1. PICK args \in Arguments(m) : call[c].request = Request(m, args)
    BY <2>1a
  <2>2. call[c].request.op = m.op /\ call[c].request.key = Fill(m.key, args)
    BY <2>1 DEF Request
  <2>3. m.op \in Ops
    BY DEF Ops
  <2>4. ASSUME NEW i \in DOMAIN m.key PROVE Fill(m.key, args)[i] \notin Param
    BY Filled, IdAssumption
  <2>5. DOMAIN Fill(m.key, args) = DOMAIN m.key
    BY DEF Fill
  <2> QED
    BY <2>2, <2>3, <2>4, <2>5 DEF Segments
<1> QED
  BY <1>1, <1>2, <1>3 DEF CallInv, CallRecord

\* Requests of one method for one guild, channel, webhook and application have one
\* key, and a key has one holder.
LEMMA SameKeyTogether == IInv => Together
<1> SUFFICES ASSUME IInv, NEW c \in Caller, NEW d \in Caller, c # d, call[c].sent, call[d].sent,
                    call[c].request.op = call[d].request.op,
                    call[c].request.path = call[d].request.path,
                    call[c].request.major = call[d].request.major,
                    call[c].request.op \notin PerObject
             PROVE  FALSE
  BY DEF Together
<1>1. call[c].request # NoRequest /\ call[d].request # NoRequest
  BY DEF IInv, CallInv
<1>2a. PICK m \in Methods : \E a \in Arguments(m) : m.path # <<>> /\ call[c].request = Request(m, a)
  BY <1>1, RequestOf
<1>2. PICK a \in Arguments(m) : m.path # <<>> /\ call[c].request = Request(m, a)
  BY <1>2a
<1>3a. PICK n \in Methods : \E b \in Arguments(n) : n.path # <<>> /\ call[d].request = Request(n, b)
  BY <1>1, RequestOf
<1>3. PICK b \in Arguments(n) : n.path # <<>> /\ call[d].request = Request(n, b)
  BY <1>3a
<1>4. /\ m.op = n.op /\ m.path = n.path /\ m.op \notin PerObject
      /\ call[c].request.key = Fill(m.key, a) /\ call[d].request.key = Fill(n.key, b)
  BY <1>2, <1>3 DEF Request
<1>5. Fill(m.key, a) = Fill(n.key, b)
  BY <1>2, <1>3, <1>4, OneKeyFilled
<1> QED
  BY <1>4, <1>5 DEF IInv, OneHolder

\* A key determines the address and what Discord's limits depend on.
LEMMA SameKeyApart == IInv => Apart
<1> SUFFICES ASSUME IInv, NEW c \in Caller, NEW d \in Caller, call[c].request # NoRequest,
                    call[d].sent, call[c].request.key = call[d].request.key
             PROVE  /\ \/ call[c].request.path = call[d].request.path
                       \/ \E S \in SharedKey : {call[c].request.op, call[d].request.op} \subseteq S
                    /\ \/ call[c].request.major = call[d].request.major
                       \/ {call[c].request.op, call[d].request.op} \subseteq AnyOfThem
  BY DEF Apart
<1>1. call[d].request # NoRequest
  BY DEF IInv, CallInv
<1>2a. PICK m \in Methods : \E a \in Arguments(m) : m.path # <<>> /\ call[c].request = Request(m, a)
  BY RequestOf
<1>2. PICK a \in Arguments(m) : m.path # <<>> /\ call[c].request = Request(m, a)
  BY <1>2a
<1>3a. PICK n \in Methods : \E b \in Arguments(n) : n.path # <<>> /\ call[d].request = Request(n, b)
  BY <1>1, RequestOf
<1>3. PICK b \in Arguments(n) : n.path # <<>> /\ call[d].request = Request(n, b)
  BY <1>3a
<1>4. /\ call[c].request.path = m.path /\ call[d].request.path = n.path
      /\ call[c].request.op = m.op /\ call[d].request.op = n.op
      /\ Fill(m.key, a) = Fill(n.key, b)
  BY <1>2, <1>3 DEF Request
<1>5. m.key = n.key
  BY <1>4, SameKey
<1>6. m.path = n.path \/ \E S \in SharedKey : {m.op, n.op} \subseteq S
  BY <1>2, <1>3, <1>5, SameAddress
<1>7. Request(m, a).major = Request(n, b).major \/ {m.op, n.op} \subseteq AnyOfThem
  BY <1>4, SameMajor
<1> QED
  BY <1>2, <1>3, <1>4, <1>6, <1>7

\* The custom limit's suffix.
LEMMA CustomLimit == IInv => ReactionsLimited
<1> SUFFICES ASSUME IInv, NEW c \in Caller, call[c].request # NoRequest
             PROVE  call[c].request.op \in ReactionSharers
                    <=> IsSuffix(<<Empty, "reactions", Empty, Empty>>, call[c].request.key)
  BY DEF ReactionsLimited, ReactionSharers
<1>1a. PICK m \in Methods : \E args \in Arguments(m) : call[c].request = Request(m, args)
  BY RequestOf
<1>1. PICK args \in Arguments(m) : call[c].request = Request(m, args)
  BY <1>1a
<1>2. call[c].request.op = m.op /\ call[c].request.key = Fill(m.key, args)
  BY <1>1 DEF Request
<1> QED
  BY <1>2, ReactionKeys

\* IInv holds in every reachable state: with the lemmas above it is what the next
\* theorems follow from.
THEOREM RestInvariant == Spec => []IInv
<1>1. Init => IInv
  BY InitInv
<1>2. IInv /\ [Next]_vars => IInv'
  BY NextInv
<1> QED
  BY <1>1, <1>2, PTL DEF Spec

\* A request that was sent is under way, is one of a method of the library, and its
\* key has no argument left to fill in (RequestWithBucketID and the functions of
\* endpoints.go).
THEOREM RestTypes == Spec => []TypeOK
<1>1. IInv => TypeOK
  BY Typed
<1> QED
  BY <1>1, RestInvariant, PTL

\* Two requests of one method for the same guild, channel, webhook and application
\* are never under way together, except those counted by object (LockBucket with the
\* keys of restapi.go).
THEOREM RequestsGoTogether == Spec => []Together
<1>1. IInv => Together
  BY SameKeyTogether
<1> QED
  BY <1>1, RestInvariant, PTL

\* A request waits only for one to the same address or one listed in SharedKey, and to
\* the same guild, channel, webhook and application or one listed in AnyOfThem.
THEOREM OthersDoNotWait == Spec => []Apart
<1>1. IInv => Apart
  BY SameKeyApart
<1> QED
  BY <1>1, RestInvariant, PTL

\* The custom limit of ratelimit.go is that of the requests for reactions.
THEOREM ReactionsHaveTheLimit == Spec => []ReactionsLimited
<1>1. IInv => ReactionsLimited
  BY CustomLimit
<1> QED
  BY <1>1, RestInvariant, PTL

\* A call that returns an error made no request that succeeded and changed something.
THEOREM FailedCallsChangedNothing == Spec => []ErrorsChangeNothing
<1>1. IInv => ErrorsChangeNothing
  BY DEF IInv, CallInv, ErrorsChangeNothing
<1> QED
  BY <1>1, RestInvariant, PTL

\* Only a message that was given to a method before is refused for its embeds.
THEOREM NewMessagesAreAccepted == Spec => []NewMessageAccepted
<1>1. IInv => NewMessageAccepted
  BY DEF IInv, CallInv, MessageOnce, NewMessageAccepted
<1> QED
  BY <1>1, RestInvariant, PTL

-----------------------------------------------------------------------------
(***************************************************************************)
(* Theorems about memberPermissions and firstRoleColorColor, for any guild,*)
(* any overwrites of the channel and any roles of the member.              *)
(***************************************************************************)
\* Of the overwrites only the last pass that names a permission decides it.
LEMMA ApplyDecides ==
    ASSUME NEW permissions, NEW overwrites, NEW p
    PROVE  p \in Apply(permissions, overwrites) <=>
               \/ \E o \in overwrites : p \in o.allow
               \/ p \in permissions /\ \A o \in overwrites : p \notin o.deny
<1>1. p \in UNION {o.allow : o \in overwrites} <=> \E o \in overwrites : p \in o.allow
  OBVIOUS
<1>2. p \in UNION {o.deny : o \in overwrites} <=> \E o \in overwrites : p \in o.deny
  OBVIOUS
<1> QED  BY <1>1, <1>2 DEF Apply

\* Whatever the overwrites of a channel say, a member who comes out of them as
\* an administrator has every permission of a channel (restapi.go:577-579).
THEOREM AdministratorHasChannel ==
    ASSUME NEW guild, NEW overwrites, NEW userID, NEW roles,
           Administrator \in memberPermissions(guild, overwrites, userID, roles)
    PROVE  PermissionAllChannel \subseteq memberPermissions(guild, overwrites, userID, roles)
<1>1. Administrator \notin PermissionAllChannel
  BY DEF Administrator, PermissionAllChannel, PermissionAllText, PermissionAllVoice
<1>2. CASE userID = guild.owner
  BY <1>2 DEF memberPermissions, PermissionAll
<1>3. CASE userID # guild.owner
  <2>1. Administrator \in ChannelPermissions(guild, overwrites, userID, roles)
    BY <1>1, <1>3 DEF memberPermissions
  <2> QED  BY <2>1, <1>3 DEF memberPermissions
<1> QED  BY <1>2, <1>3

\* An administrator by one of the member's roles loses no permission of a
\* channel to an overwrite, as long as none denies Administrator itself: what
\* other overwrites take away is given back at the end.
THEOREM AdministratorBypasses ==
    ASSUME NEW guild, NEW overwrites, NEW userID, NEW roles,
           \E r \in guild.roles : r.id \in roles /\ Administrator \in r.permissions,
           \A o \in overwrites : Administrator \notin o.deny
    PROVE  PermissionAllChannel \subseteq memberPermissions(guild, overwrites, userID, roles)
<1> DEFINE G == GuildPermissions(guild, roles)
           E == Apply(G, EveryoneOverwrites(guild, overwrites))
           R == Apply(E, RoleOverwrites(roles, overwrites))
<1>1. Administrator \in G
  BY DEF GuildPermissions
<1> HIDE DEF G
<1>2. Administrator \in E
  BY <1>1, ApplyDecides DEF EveryoneOverwrites
<1> HIDE DEF E
<1>3. Administrator \in R
  BY <1>2, ApplyDecides DEF RoleOverwrites
<1> HIDE DEF R
<1>4. Administrator \in Apply(R, MemberOverwrites(userID, overwrites))
  BY <1>3, ApplyDecides DEF MemberOverwrites
<1>5. Administrator \in ChannelPermissions(guild, overwrites, userID, roles)
  BY <1>4 DEF ChannelPermissions, G, E, R
<1> QED  BY <1>5 DEF memberPermissions, PermissionAll

\* The member's own overwrite has the last word: what it allows the member may,
\* what it denies and does not allow the member may not, whatever the roles
\* and their overwrites say, unless the member owns the guild or is an
\* administrator in the channel.
THEOREM OwnOverwriteDecides ==
    ASSUME NEW guild, NEW overwrites, NEW userID, NEW roles, NEW own \in overwrites,
           userID # guild.owner,
           MemberOverwrites(userID, overwrites) = {own}
    PROVE  LET permissions == memberPermissions(guild, overwrites, userID, roles)
           IN  /\ own.allow \subseteq permissions
               /\ \A p \in own.deny \ own.allow :
                      p \in permissions => Administrator \in permissions
<1> DEFINE R == Apply(Apply(GuildPermissions(guild, roles), EveryoneOverwrites(guild, overwrites)),
                      RoleOverwrites(roles, overwrites))
           C == ChannelPermissions(guild, overwrites, userID, roles)
<1>1. C = Apply(R, {own})
  BY DEF ChannelPermissions
<1> HIDE DEF R
<1>2. \A p : p \in C <=> p \in own.allow \/ (p \in R /\ p \notin own.deny)
  BY <1>1, ApplyDecides
<1> HIDE DEF C
<1>3. memberPermissions(guild, overwrites, userID, roles)
        = C \cup (IF Administrator \in C THEN PermissionAllChannel ELSE {})
  BY DEF memberPermissions, C
<1> QED  BY <1>2, <1>3

\* What an overwrite of one of the member's roles allows is not lost to an
\* overwrite of another role that denies it: only the member's own can.
THEOREM RoleAllowBeatsRoleDeny ==
    ASSUME NEW guild, NEW overwrites, NEW userID, NEW roles, NEW p,
           userID # guild.owner,
           \E o \in RoleOverwrites(roles, overwrites) : p \in o.allow,
           \A o \in MemberOverwrites(userID, overwrites) : p \notin o.deny
    PROVE  p \in memberPermissions(guild, overwrites, userID, roles)
<1> DEFINE E == Apply(GuildPermissions(guild, roles), EveryoneOverwrites(guild, overwrites))
           R == Apply(E, RoleOverwrites(roles, overwrites))
<1> HIDE DEF E
<1>1. p \in R
  BY ApplyDecides
<1> HIDE DEF R
<1>2. p \in Apply(R, MemberOverwrites(userID, overwrites))
  BY <1>1, ApplyDecides
<1>3. p \in ChannelPermissions(guild, overwrites, userID, roles)
  BY <1>2 DEF ChannelPermissions, E, R
<1> QED  BY <1>3 DEF memberPermissions

\* Overwrites of other members, and of roles the member does not have, change
\* nothing for the member.
THEOREM OthersOverwritesIgnored ==
    ASSUME NEW guild, NEW overwrites, NEW others, NEW userID, NEW roles,
           \A o \in others : /\ o.id # guild.id
                             /\ o.type = "role" => o.id \notin roles
                             /\ o.type = "member" => o.id # userID
    PROVE  memberPermissions(guild, overwrites \cup others, userID, roles)
             = memberPermissions(guild, overwrites, userID, roles)
<1>1. EveryoneOverwrites(guild, overwrites \cup others) = EveryoneOverwrites(guild, overwrites)
  BY DEF EveryoneOverwrites
<1>2. RoleOverwrites(roles, overwrites \cup others) = RoleOverwrites(roles, overwrites)
  BY DEF RoleOverwrites
<1>3. MemberOverwrites(userID, overwrites \cup others) = MemberOverwrites(userID, overwrites)
  BY DEF MemberOverwrites
<1> QED  BY <1>1, <1>2, <1>3 DEF memberPermissions, ChannelPermissions

\* The colour of a member with a coloured role is that of a coloured role of
\* the member, and no coloured role of the member stands above that one,
\* however the roles are sorted.
THEOREM ColorOfHighestRole ==
    ASSUME NEW guild, NEW memberRoles, Colored(guild, memberRoles) # {},
           NEW color \in firstRoleColorColor(guild, memberRoles)
    PROVE  \E r \in Colored(guild, memberRoles) :
               /\ r.color = color
               /\ \A q \in Colored(guild, memberRoles) : q.position <= r.position
<1>1. PICK r \in Highest(Colored(guild, memberRoles)) : color = r.color
  BY DEF firstRoleColorColor
<1> QED  BY <1>1 DEF Highest

=============================================================================
