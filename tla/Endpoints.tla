------------------------------ MODULE Endpoints ------------------------------
(***************************************************************************)
(* The methods of Session that use the REST API (restapi.go, oauth2.go):   *)
(* for each the request it makes, with its path and with the key under     *)
(* which the rate limiter counts it, or the methods it calls.              *)
(*                                                                         *)
(* A path is a sequence of segments; the names in Param stand for the      *)
(* method's arguments, every other segment is literal.  The code writes    *)
(* both as strings built by the functions of endpoints.go, and asks for a  *)
(* key that has "" for an argument the limit does not depend on: here      *)
(* Sends names those arguments, and Empty is the segment the code leaves   *)
(* out.  A query is left out where the key does not contain it; where it   *)
(* does there is a row without a query and one with "?" and the argument   *)
(* "query".  Bodies, multipart forms and the decoding of answers are left  *)
(* out.                                                                    *)
(***************************************************************************)
EXTENDS Sequences

\* The arguments of the functions in endpoints.go.
Param == {
    "answerID", "appID", "channelID", "cmdID", "emojiID", "entitlementID", "eventID", "guildID", "hash",
    "integrationID", "interactionID", "inviteID", "memberID", "messageID", "query", "roleID", "ruleID",
    "skuID", "subscriptionID", "targetID", "templateCode", "token", "userID", "webhookID"}

\* What "" between two slashes of a path or key is here.
Empty == "-"

\* A method that makes the request `method path` under the key that has Empty for
\* the segments in blank (RequestWithBucketID).
Sends(op, method, path, blank) ==
    [op |-> op, calls |-> <<>>, method |-> method, path |-> path,
     key |-> [i \in DOMAIN path |-> IF path[i] \in blank THEN Empty ELSE path[i]]]

\* The same with a key of another form.
SendsAs(op, method, path, key) ==
    [op |-> op, calls |-> <<>>, method |-> method, path |-> path, key |-> key]

\* A method that calls others and makes no request of its own.
Calls(op, ops) == [op |-> op, calls |-> ops, method |-> "none", path |-> <<>>, key |-> <<>>]

\* Users.
UserMethods == {
    Sends("User", "GET", <<"users", "userID">>, {"userID"}), Calls("UserAvatar", <<"User", "UserAvatarDecode">>),
    Sends("UserAvatarDecode", "GET", <<"cdn.discordapp.com", "avatars", "userID", "hash">>, {"userID", "hash"}),
    Sends("UserUpdate", "PATCH", <<"users", "@me">>, {"@me"}),
    Sends("UserConnections", "GET", <<"users", "@me", "connections">>, {}),
    Sends("UserChannelCreate", "POST", <<"users", "@me", "channels">>, {"@me"}),
    Sends("UserGuildMember", "GET", <<"users", "@me", "guilds", "guildID", "member">>, {}),
    Sends("UserGuilds", "GET", <<"users", "@me", "guilds">>, {"@me"})}

\* Guilds. GuildEdit looks its region up before the PATCH.
GuildMethods == {
    Sends("Guild", "GET", <<"guilds", "guildID">>, {}),
    Sends("GuildWithCounts", "GET", <<"guilds", "guildID">>, {}),
    Sends("GuildPreview", "GET", <<"guilds", "guildID", "preview">>, {}),
    Sends("GuildCreate", "POST", <<"guilds">>, {}), Calls("GuildEdit", <<"VoiceRegions", "GuildEditPatch">>),
    Calls("GuildEdit", <<"GuildEditPatch">>), Sends("GuildEditPatch", "PATCH", <<"guilds", "guildID">>, {}),
    Sends("GuildDelete", "DELETE", <<"guilds", "guildID">>, {}),
    Sends("GuildLeave", "DELETE", <<"users", "@me", "guilds", "guildID">>, {"@me"}),
    Sends("GuildBans", "GET", <<"guilds", "guildID", "bans">>, {})}

\* Bans and members.
BanAndMemberMethods == {
    Calls("GuildBanCreate", <<"GuildBanCreateWithReason">>),
    Sends("GuildBan", "GET", <<"guilds", "guildID", "bans", "userID">>, {}),
    Sends("GuildBanCreateWithReason", "PUT", <<"guilds", "guildID", "bans", "userID">>, {"userID"}),
    Sends("GuildBanDelete", "DELETE", <<"guilds", "guildID", "bans", "userID">>, {"userID"}),
    Sends("GuildMembers", "GET", <<"guilds", "guildID", "members">>, {}),
    Sends("GuildMembersSearch", "GET", <<"guilds", "guildID", "members", "search">>, {}),
    Sends("GuildMember", "GET", <<"guilds", "guildID", "members", "userID">>, {"userID"}),
    Sends("GuildMemberAdd", "PUT", <<"guilds", "guildID", "members", "userID">>, {"userID"}),
    Calls("GuildMemberDelete", <<"GuildMemberDeleteWithReason">>)}

\* Members. The nickname of "@me" has an address of its own and the key of the
\* others' nicknames.
MemberMethods == {
    Sends("GuildMemberDeleteWithReason", "DELETE", <<"guilds", "guildID", "members", "userID">>, {"userID"}),
    Sends("GuildMemberEdit", "PATCH", <<"guilds", "guildID", "members", "userID">>, {"userID"}),
    Calls("GuildMemberEditComplex", <<"GuildMemberEdit">>),
    Sends("GuildMemberMove", "PATCH", <<"guilds", "guildID", "members", "userID">>, {"userID"}),
    Sends("GuildMemberNickname", "PATCH", <<"guilds", "guildID", "members", "userID">>, {"userID"}),
    SendsAs("GuildMemberNickname", "PATCH", <<"guilds", "guildID", "members", "@me", "nick">>,
        <<"guilds", "guildID", "members", Empty>>),
    Sends("GuildMemberMute", "PATCH", <<"guilds", "guildID", "members", "userID">>, {"userID"}),
    Sends("GuildMemberTimeout", "PATCH", <<"guilds", "guildID", "members", "userID">>, {"userID"}),
    Sends("GuildMemberDeafen", "PATCH", <<"guilds", "guildID", "members", "userID">>, {"userID"})}

\* Roles of a member, channels of a guild.
MemberRoleMethods == {
    Sends("GuildMemberRoleAdd", "PUT", <<"guilds", "guildID", "members", "userID", "roles", "roleID">>,
        {"userID", "roleID"}),
    Sends("GuildMemberRoleRemove", "DELETE", <<"guilds", "guildID", "members", "userID", "roles", "roleID">>,
        {"userID", "roleID"}),
    Sends("GuildChannels", "GET", <<"guilds", "guildID", "channels">>, {})}

\* Channels, invites and roles of a guild.
ChannelListAndRoleMethods == {
    Sends("GuildChannelCreateComplex", "POST", <<"guilds", "guildID", "channels">>, {}),
    Calls("GuildChannelCreate", <<"GuildChannelCreateComplex">>),
    Sends("GuildChannelsReorder", "PATCH", <<"guilds", "guildID", "channels">>, {}),
    Sends("GuildInvites", "GET", <<"guilds", "guildID", "invites">>, {}),
    Sends("GuildRoles", "GET", <<"guilds", "guildID", "roles">>, {}),
    Sends("GuildRole", "GET", <<"guilds", "guildID", "roles", "roleID">>, {"roleID"}),
    Sends("GuildRoleCreate", "POST", <<"guilds", "guildID", "roles">>, {}),
    Sends("GuildRoleEdit", "PATCH", <<"guilds", "guildID", "roles", "roleID">>, {"roleID"}),
    Sends("GuildRoleReorder", "PATCH", <<"guilds", "guildID", "roles">>, {}),
    Sends("GuildRoleDelete", "DELETE", <<"guilds", "guildID", "roles", "roleID">>, {"roleID"})}

\* Pruning and integrations.
PruneAndIntegrationMethods == {
    Sends("GuildRoleMemberCounts", "GET", <<"guilds", "guildID", "roles", "member-counts">>, {}),
    Sends("GuildPruneCount", "GET", <<"guilds", "guildID", "prune">>, {}),
    Sends("GuildPrune", "POST", <<"guilds", "guildID", "prune">>, {}),
    Sends("GuildIntegrations", "GET", <<"guilds", "guildID", "integrations">>, {}),
    Sends("GuildIntegrationCreate", "POST", <<"guilds", "guildID", "integrations">>, {}),
    Sends("GuildIntegrationEdit", "PATCH", <<"guilds", "guildID", "integrations", "integrationID">>,
        {"integrationID"}),
    Sends("GuildIntegrationDelete", "DELETE", <<"guilds", "guildID", "integrations", "integrationID">>,
        {"integrationID"})}

\* Images (fetched after the guild), widget, audit log, emojis.
ImageAuditEmojiMethods == {
    Calls("GuildIcon", <<"Guild", "GuildIconGet">>),
    Sends("GuildIconGet", "GET", <<"cdn.discordapp.com", "icons", "guildID", "hash">>, {"hash"}),
    Calls("GuildSplash", <<"Guild", "GuildSplashGet">>),
    Sends("GuildSplashGet", "GET", <<"cdn.discordapp.com", "splashes", "guildID", "hash">>, {"hash"}),
    Sends("GuildEmbed", "GET", <<"guilds", "guildID", "widget">>, {}),
    Sends("GuildEmbedEdit", "PATCH", <<"guilds", "guildID", "widget">>, {}),
    Sends("GuildAuditLog", "GET", <<"guilds", "guildID", "audit-logs">>, {}),
    Sends("GuildEmojis", "GET", <<"guilds", "guildID", "emojis">>, {}),
    Sends("GuildEmoji", "GET", <<"guilds", "guildID", "emojis", "emojiID">>, {}),
    Sends("GuildEmojiCreate", "POST", <<"guilds", "guildID", "emojis">>, {})}

\* Emojis of a guild and of an application.
EmojiMethods == {
    SendsAs("GuildEmojiEdit", "PATCH", <<"guilds", "guildID", "emojis", "emojiID">>,
        <<"guilds", "guildID", "emojis">>),
    SendsAs("GuildEmojiDelete", "DELETE", <<"guilds", "guildID", "emojis", "emojiID">>,
        <<"guilds", "guildID", "emojis">>),
    Sends("ApplicationEmojis", "GET", <<"applications", "appID", "emojis">>, {}),
    Sends("ApplicationEmoji", "GET", <<"applications", "appID", "emojis", "emojiID">>, {}),
    Sends("ApplicationEmojiCreate", "POST", <<"applications", "appID", "emojis">>, {}),
    SendsAs("ApplicationEmojiEdit", "PATCH", <<"applications", "appID", "emojis", "emojiID">>,
        <<"applications", "appID", "emojis">>),
    SendsAs("ApplicationEmojiDelete", "DELETE", <<"applications", "appID", "emojis", "emojiID">>,
        <<"applications", "appID", "emojis">>)}

\* Templates to make a guild of, and those of a guild.
TemplateUseMethods == {
    Sends("GuildTemplate", "GET", <<"guilds", "templates", "templateCode">>, {}),
    Sends("GuildCreateWithTemplate", "POST", <<"guilds", "templates", "templateCode">>, {}),
    Sends("GuildTemplates", "GET", <<"guilds", "guildID", "templates">>, {})}

\* Mutant of TemplateMethods: the key of an edit keeps the template's code.
TemplateMethodsByCode == {
    Sends("GuildTemplateCreate", "POST", <<"guilds", "guildID", "templates">>, {}),
    Sends("GuildTemplateSync", "PUT", <<"guilds", "guildID", "templates", "templateCode">>, {"templateCode"}),
    Sends("GuildTemplateEdit", "PATCH", <<"guilds", "guildID", "templates", "templateCode">>, {}),
    Sends("GuildTemplateDelete", "DELETE", <<"guilds", "guildID", "templates", "templateCode">>, {"templateCode"})}

\* Changing the templates of a guild.
TemplateMethods == {
    Sends("GuildTemplateCreate", "POST", <<"guilds", "guildID", "templates">>, {}),
    Sends("GuildTemplateSync", "PUT", <<"guilds", "guildID", "templates", "templateCode">>, {"templateCode"}),
    Sends("GuildTemplateEdit", "PATCH", <<"guilds", "guildID", "templates", "templateCode">>, {"templateCode"}),
    Sends("GuildTemplateDelete", "DELETE", <<"guilds", "guildID", "templates", "templateCode">>, {"templateCode"})}

\* Channels.
ChannelMethods == {
    Sends("Channel", "GET", <<"channels", "channelID">>, {}),
    Sends("ChannelEdit", "PATCH", <<"channels", "channelID">>, {}),
    Calls("ChannelEditComplex", <<"ChannelEdit">>),
    Sends("ChannelDelete", "DELETE", <<"channels", "channelID">>, {}),
    Sends("ChannelTyping", "POST", <<"channels", "channelID", "typing">>, {}),
    Sends("ChannelMessages", "GET", <<"channels", "channelID", "messages">>, {}),
    Sends("ChannelMessage", "GET", <<"channels", "channelID", "messages", "messageID">>, {"messageID"}),
    Calls("ChannelMessageSend", <<"ChannelMessageSendComplex">>)}

\* Sending messages.
SendMethods == {
    Sends("ChannelMessageSendComplex", "POST", <<"channels", "channelID", "messages">>, {}),
    Calls("ChannelMessageSendTTS", <<"ChannelMessageSendComplex">>),
    Calls("ChannelMessageSendEmbed", <<"ChannelMessageSendEmbeds">>),
    Calls("ChannelMessageSendEmbeds", <<"ChannelMessageSendComplex">>),
    Calls("ChannelMessageSendReply", <<"ChannelMessageSendComplex">>),
    Calls("ChannelMessageSendEmbedReply", <<"ChannelMessageSendEmbedsReply">>),
    Calls("ChannelMessageSendEmbedsReply", <<"ChannelMessageSendComplex">>),
    Calls("ChannelMessageEdit", <<"ChannelMessageEditComplex">>)}

\* Editing, deleting, pinning.
EditAndPinMethods == {
    Sends("ChannelMessageEditComplex", "PATCH", <<"channels", "channelID", "messages", "messageID">>, {"messageID"}),
    Calls("ChannelMessageEditEmbed", <<"ChannelMessageEditEmbeds">>),
    Calls("ChannelMessageEditEmbeds", <<"ChannelMessageEditComplex">>),
    Sends("ChannelMessageDelete", "DELETE", <<"channels", "channelID", "messages", "messageID">>, {"messageID"}),
    Sends("ChannelMessagesBulkDelete", "POST", <<"channels", "channelID", "messages", "bulk-delete">>, {}),
    Calls("ChannelMessagesBulkDelete", <<"ChannelMessageDelete">>), Calls("ChannelMessagesBulkDelete", <<>>),
    Sends("ChannelMessagePin", "PUT", <<"channels", "channelID", "messages", "pins", "messageID">>, {"messageID"}),
    Sends("ChannelMessageUnpin", "DELETE", <<"channels", "channelID", "messages", "pins", "messageID">>,
        {"messageID"}),
    Sends("ChannelMessagesPinned", "GET", <<"channels", "channelID", "messages", "pins">>, {}),
    Sends("ChannelMessagesPinned", "GET", <<"channels", "channelID", "messages", "pins", "?", "query">>, {}),
    Calls("ChannelFileSend", <<"ChannelMessageSendComplex">>)}

\* Files, invites and permissions of a channel.
FileAndPermissionMethods == {
    Calls("ChannelFileSendWithMessage", <<"ChannelMessageSendComplex">>),
    Sends("ChannelInvites", "GET", <<"channels", "channelID", "invites">>, {}),
    Sends("ChannelInviteCreate", "POST", <<"channels", "channelID", "invites">>, {}),
    Sends("ChannelPermissionSet", "PUT", <<"channels", "channelID", "permissions", "targetID">>, {"targetID"}),
    Sends("ChannelPermissionDelete", "DELETE", <<"channels", "channelID", "permissions", "targetID">>, {"targetID"}),
    Sends("ChannelMessageCrosspost", "POST", <<"channels", "channelID", "messages", "messageID", "crosspost">>, {}),
    Sends("ChannelNewsFollow", "POST", <<"channels", "channelID", "followers">>, {})}

\* Invites, voice regions, gateway.
InviteAndGatewayMethods == {
    Sends("Invite", "GET", <<"invites", "inviteID">>, {"inviteID"}),
    Sends("InviteWithCounts", "GET", <<"invites", "inviteID">>, {"inviteID"}),
    Sends("InviteComplex", "GET", <<"invites", "inviteID">>, {"inviteID"}),
    Sends("InviteDelete", "DELETE", <<"invites", "inviteID">>, {"inviteID"}),
    Sends("InviteAccept", "POST", <<"invites", "inviteID">>, {"inviteID"}),
    Sends("VoiceRegions", "GET", <<Empty, "voice", "regions">>, {}), Sends("Gateway", "GET", <<"gateway">>, {}),
    Sends("GatewayBot", "GET", <<"gateway", "bot">>, {})}

\* Webhooks.
WebhookMethods == {
    Sends("WebhookCreate", "POST", <<"channels", "channelID", "webhooks">>, {}),
    Sends("ChannelWebhooks", "GET", <<"channels", "channelID", "webhooks">>, {}),
    Sends("GuildWebhooks", "GET", <<"guilds", "guildID", "webhooks">>, {}),
    Sends("Webhook", "GET", <<"webhooks", "webhookID">>, {"webhookID"}),
    Sends("WebhookWithToken", "GET", <<"webhooks", "webhookID", "token">>, {"webhookID", "token"}),
    Sends("WebhookEdit", "PATCH", <<"webhooks", "webhookID">>, {"webhookID"}),
    Sends("WebhookEditWithToken", "PATCH", <<"webhooks", "webhookID", "token">>, {"webhookID", "token"}),
    Sends("WebhookDelete", "DELETE", <<"webhooks", "webhookID">>, {"webhookID"}),
    Sends("WebhookDeleteWithToken", "DELETE", <<"webhooks", "webhookID", "token">>, {"webhookID", "token"})}

\* Messages of a webhook; with files an edit uses its own address as the key.
WebhookMessageMethods == {
    Sends("webhookExecute", "POST", <<"webhooks", "webhookID", "token">>, {}),
    Sends("webhookExecute", "POST", <<"webhooks", "webhookID", "token", "?", "query">>, {}),
    Calls("WebhookExecute", <<"webhookExecute">>), Calls("WebhookThreadExecute", <<"webhookExecute">>),
    SendsAs("WebhookMessage", "GET", <<"webhooks", "webhookID", "token", "messages", "messageID">>,
        <<"webhooks", Empty, Empty>>),
    Sends("WebhookMessageEdit", "PATCH", <<"webhooks", "webhookID", "token", "messages", "messageID">>, {}),
    SendsAs("WebhookMessageEdit", "PATCH", <<"webhooks", "webhookID", "token", "messages", "messageID">>,
        <<"webhooks", Empty, Empty>>),
    SendsAs("WebhookMessageDelete", "DELETE", <<"webhooks", "webhookID", "token", "messages", "messageID">>,
        <<"webhooks", Empty, Empty>>)}

\* Mutant of ReactionMethods: adding a reaction keeps the emoji in the key.
ReactionMethodsByEmoji == {
    Sends("MessageReactionAdd", "PUT",
        <<"channels", "channelID", "messages", "messageID", "reactions", "emojiID", "@me">>, {"messageID", "@me"}),
    Sends("MessageReactionRemove", "DELETE",
        <<"channels", "channelID", "messages", "messageID", "reactions", "emojiID", "userID">>, {"messageID", "emojiID", "userID"}),
    Sends("MessageReactionsRemoveAll", "DELETE", <<"channels", "channelID", "messages", "messageID", "reactions">>,
        {}),
    Sends("MessageReactionsRemoveEmoji", "DELETE",
        <<"channels", "channelID", "messages", "messageID", "reactions", "emojiID">>, {}),
    SendsAs("MessageReactions", "GET", <<"channels", "channelID", "messages", "messageID", "reactions", "emojiID">>,
        <<"channels", "channelID", "messages", Empty, "reactions", Empty, Empty>>)}

\* Reactions.
ReactionMethods == {
    Sends("MessageReactionAdd", "PUT",
        <<"channels", "channelID", "messages", "messageID", "reactions", "emojiID", "@me">>, {"messageID", "emojiID", "@me"}),
    Sends("MessageReactionRemove", "DELETE",
        <<"channels", "channelID", "messages", "messageID", "reactions", "emojiID", "userID">>, {"messageID", "emojiID", "userID"}),
    Sends("MessageReactionsRemoveAll", "DELETE", <<"channels", "channelID", "messages", "messageID", "reactions">>,
        {}),
    Sends("MessageReactionsRemoveEmoji", "DELETE",
        <<"channels", "channelID", "messages", "messageID", "reactions", "emojiID">>, {}),
    SendsAs("MessageReactions", "GET", <<"channels", "channelID", "messages", "messageID", "reactions", "emojiID">>,
        <<"channels", "channelID", "messages", Empty, "reactions", Empty, Empty>>)}

\* Starting threads.
ThreadStartMethods == {
    Sends("MessageThreadStartComplex", "POST", <<"channels", "channelID", "messages", "messageID", "threads">>, {}),
    Calls("MessageThreadStart", <<"MessageThreadStartComplex">>),
    Sends("ThreadStartComplex", "POST", <<"channels", "channelID", "threads">>, {}),
    Calls("ThreadStart", <<"ThreadStartComplex">>),
    Sends("ForumThreadStartComplex", "POST", <<"channels", "channelID", "threads">>, {}),
    Calls("ForumThreadStart", <<"ForumThreadStartComplex">>),
    Calls("ForumThreadStartEmbed", <<"ForumThreadStartComplex">>),
    Calls("ForumThreadStartEmbeds", <<"ForumThreadStartComplex">>)}

\* Members of a thread.
ThreadMemberMethods == {
    Sends("ThreadJoin", "PUT", <<"channels", "channelID", "thread-members", "@me">>, {}),
    Sends("ThreadLeave", "DELETE", <<"channels", "channelID", "thread-members", "@me">>, {}),
    Sends("ThreadMemberAdd", "PUT", <<"channels", "channelID", "thread-members", "memberID">>, {}),
    Sends("ThreadMemberRemove", "DELETE", <<"channels", "channelID", "thread-members", "memberID">>, {}),
    Sends("ThreadMember", "GET", <<"channels", "channelID", "thread-members", "memberID">>, {}),
    Sends("ThreadMember", "GET", <<"channels", "channelID", "thread-members", "memberID", "?", "query">>, {}),
    Sends("ThreadMembers", "GET", <<"channels", "channelID", "thread-members">>, {}),
    Sends("ThreadMembers", "GET", <<"channels", "channelID", "thread-members", "?", "query">>, {})}

\* Lists of active threads, and of archived public ones.
ThreadListMethods == {
    Sends("ThreadsActive", "GET", <<"channels", "channelID", "threads", "active">>, {}),
    Sends("GuildThreadsActive", "GET", <<"guilds", "guildID", "threads", "active">>, {}),
    Sends("ThreadsArchived", "GET", <<"channels", "channelID", "threads", "archived", "public">>, {}),
    Sends("ThreadsArchived", "GET", <<"channels", "channelID", "threads", "archived", "public", "?", "query">>, {})}

\* Archived private threads.
ArchivedThreadMethods == {
    Sends("ThreadsPrivateArchived", "GET", <<"channels", "channelID", "threads", "archived", "private">>, {}),
    Sends("ThreadsPrivateArchived", "GET",
        <<"channels", "channelID", "threads", "archived", "private", "?", "query">>, {}),
    Sends("ThreadsPrivateJoinedArchived", "GET",
        <<"channels", "channelID", "users", "@me", "threads", "archived", "private">>, {}),
    Sends("ThreadsPrivateJoinedArchived", "GET",
        <<"channels", "channelID", "users", "@me", "threads", "archived", "private", "?", "query">>, {})}

\* Application commands, of a guild or global.
CommandMethods == {
    Sends("ApplicationCommandCreate", "POST", <<"applications", "appID", "guilds", "guildID", "commands">>, {}),
    Sends("ApplicationCommandCreate", "POST", <<"applications", "appID", "commands">>, {}),
    Sends("ApplicationCommandEdit", "PATCH", <<"applications", "appID", "guilds", "guildID", "commands", "cmdID">>,
        {}),
    Sends("ApplicationCommandEdit", "PATCH", <<"applications", "appID", "commands", "cmdID">>, {}),
    Sends("ApplicationCommandBulkOverwrite", "PUT", <<"applications", "appID", "guilds", "guildID", "commands">>, {}),
    Sends("ApplicationCommandBulkOverwrite", "PUT", <<"applications", "appID", "commands">>, {}),
    Sends("ApplicationCommandDelete", "DELETE", <<"applications", "appID", "guilds", "guildID", "commands", "cmdID">>,
        {}),
    Sends("ApplicationCommandDelete", "DELETE", <<"applications", "appID", "commands", "cmdID">>, {})}

\* What there is of commands; the list has a key of its own.
CommandListMethods == {
    Sends("ApplicationCommand", "GET", <<"applications", "appID", "guilds", "guildID", "commands", "cmdID">>, {}),
    Sends("ApplicationCommand", "GET", <<"applications", "appID", "commands", "cmdID">>, {}),
    SendsAs("ApplicationCommands", "GET", <<"applications", "appID", "guilds", "guildID", "commands">>,
        <<"GET", "applications", "appID", "guilds", "guildID", "commands">>),
    SendsAs("ApplicationCommands", "GET", <<"applications", "appID", "commands">>,
        <<"GET", "applications", "appID", "commands">>),
    Sends("GuildApplicationCommandsPermissions", "GET",
        <<"applications", "appID", "guilds", "guildID", "commands", "permissions">>, {}),
    Sends("ApplicationCommandPermissions", "GET",
        <<"applications", "appID", "guilds", "guildID", "commands", "cmdID", "permissions">>, {})}

\* Mutant of CommandPermissionMethods: the key of a batch edit leaves the guild out.
CommandPermissionMethodsAnyGuild == {
    Sends("ApplicationCommandPermissionsEdit", "PUT",
        <<"applications", "appID", "guilds", "guildID", "commands", "cmdID", "permissions">>, {}),
    Sends("ApplicationCommandPermissionsBatchEdit", "PUT",
        <<"applications", "appID", "guilds", "guildID", "commands", "permissions">>, {"guildID"})}

\* Permissions of commands.
CommandPermissionMethods == {
    Sends("ApplicationCommandPermissionsEdit", "PUT",
        <<"applications", "appID", "guilds", "guildID", "commands", "cmdID", "permissions">>, {}),
    Sends("ApplicationCommandPermissionsBatchEdit", "PUT",
        <<"applications", "appID", "guilds", "guildID", "commands", "permissions">>, {})}

\* Interactions: the application's id is the webhook's.
InteractionMethods == {
    Sends("InteractionRespond", "POST", <<"interactions", "interactionID", "token", "callback">>, {}),
    Calls("InteractionResponse", <<"WebhookMessage">>),
    Calls("InteractionResponseEdit", <<"WebhookMessageEdit">>),
    Sends("InteractionResponseDelete", "DELETE", <<"webhooks", "webhookID", "token", "messages", "@original">>, {}),
    Calls("FollowupMessageCreate", <<"WebhookExecute">>), Calls("FollowupMessageEdit", <<"WebhookMessageEdit">>),
    Calls("FollowupMessageDelete", <<"WebhookMessageDelete">>)}

\* Stage instances and scheduled events.
StageAndScheduledEventMethods == {
    Sends("StageInstanceCreate", "POST", <<"stage-instances">>, {}),
    Sends("StageInstance", "GET", <<"stage-instances", "channelID">>, {}),
    Sends("StageInstanceEdit", "PATCH", <<"stage-instances", "channelID">>, {}),
    Sends("StageInstanceDelete", "DELETE", <<"stage-instances", "channelID">>, {}),
    Sends("GuildScheduledEvents", "GET", <<"guilds", "guildID", "scheduled-events">>, {}),
    Sends("GuildScheduledEvent", "GET", <<"guilds", "guildID", "scheduled-events", "eventID">>, {}),
    Sends("GuildScheduledEventCreate", "POST", <<"guilds", "guildID", "scheduled-events">>, {}),
    Sends("GuildScheduledEventEdit", "PATCH", <<"guilds", "guildID", "scheduled-events", "eventID">>, {}),
    Sends("GuildScheduledEventDelete", "DELETE", <<"guilds", "guildID", "scheduled-events", "eventID">>, {})}

\* Onboarding and moderation rules.
OnboardingAndRuleMethods == {
    Sends("GuildScheduledEventUsers", "GET", <<"guilds", "guildID", "scheduled-events", "eventID", "users">>, {}),
    Sends("GuildOnboarding", "GET", <<"guilds", "guildID", "onboarding">>, {}),
    Sends("GuildOnboardingEdit", "PUT", <<"guilds", "guildID", "onboarding">>, {}),
    Sends("AutoModerationRules", "GET", <<"guilds", "guildID", "auto-moderation", "rules">>, {}),
    Sends("AutoModerationRule", "GET", <<"guilds", "guildID", "auto-moderation", "rules", "ruleID">>, {}),
    Sends("AutoModerationRuleCreate", "POST", <<"guilds", "guildID", "auto-moderation", "rules">>, {}),
    Sends("AutoModerationRuleEdit", "PATCH", <<"guilds", "guildID", "auto-moderation", "rules", "ruleID">>, {}),
    Sends("AutoModerationRuleDelete", "DELETE", <<"guilds", "guildID", "auto-moderation", "rules", "ruleID">>, {})}

\* Role connections and polls.
RoleConnectionAndPollMethods == {
    Sends("ApplicationRoleConnectionMetadata", "GET", <<"applications", "appID", "role-connections", "metadata">>, {}),
    Sends("ApplicationRoleConnectionMetadataUpdate", "PUT",
        <<"applications", "appID", "role-connections", "metadata">>, {}),
    Sends("UserApplicationRoleConnection", "GET", <<"users", "@me", "applications", "appID", "role-connection">>, {}),
    Sends("UserApplicationRoleConnectionUpdate", "PUT",
        <<"users", "@me", "applications", "appID", "role-connection">>, {}),
    Sends("PollAnswerVoters", "GET", <<"channels", "channelID", "polls", "messageID", "answers", "answerID">>, {}),
    Sends("PollExpire", "POST", <<"channels", "channelID", "polls", "messageID", "expire">>, {}),
    Sends("SKUs", "GET", <<"applications", "appID", "skus">>, {})}

\* Entitlements, subscriptions, voice states.
EntitlementMethods == {
    Sends("Entitlements", "GET", <<"applications", "appID", "entitlements">>, {}),
    Sends("EntitlementConsume", "POST", <<"applications", "appID", "entitlements", "entitlementID", "consume">>,
        {"entitlementID"}),
    Sends("EntitlementTestCreate", "POST", <<"applications", "appID", "entitlements">>, {}),
    Sends("EntitlementTestDelete", "DELETE", <<"applications", "appID", "entitlements", "entitlementID">>,
        {"entitlementID"}),
    Sends("Subscriptions", "GET", <<"skus", "skuID", "subscriptions">>, {}),
    Sends("Subscription", "GET", <<"skus", "skuID", "subscriptions", "subscriptionID">>, {}),
    Sends("UserVoiceState", "GET", <<"guilds", "guildID", "voice-states", "userID">>, {})}

\* The deprecated methods of OAuth2 applications (oauth2.go).
OAuth2Methods == {
    Sends("Application", "GET", <<"oauth2", "applications", "appID">>, {"appID"}),
    Sends("Applications", "GET", <<"oauth2", "applications">>, {}),
    Sends("ApplicationCreate", "POST", <<"oauth2", "applications">>, {}),
    Sends("ApplicationUpdate", "PUT", <<"oauth2", "applications", "appID">>, {"appID"}),
    Sends("ApplicationDelete", "DELETE", <<"oauth2", "applications", "appID">>, {"appID"}),
    Sends("ApplicationAssets", "GET", <<"oauth2", "applications", "appID", "assets">>, {"appID"}),
    Sends("ApplicationBotCreate", "POST", <<"oauth2", "applications", "appID", "bot">>, {"appID"})}

\* The deprecated Session.UserChannelPermissions asks the API for what the state
\* does not hold.
PermissionMethods ==
    {Calls("UserChannelPermissions", channel \o guild \o member) :
        channel \in {<<>>, <<"Channel">>}, guild \in {<<>>, <<"Guild">>}, member \in {<<>>, <<"GuildMember">>}}

Methods ==
    UNION {UserMethods, GuildMethods, BanAndMemberMethods, MemberMethods,
           MemberRoleMethods, ChannelListAndRoleMethods, PruneAndIntegrationMethods,
           ImageAuditEmojiMethods, EmojiMethods, TemplateUseMethods, TemplateMethods,
           ChannelMethods, SendMethods, EditAndPinMethods, FileAndPermissionMethods,
           InviteAndGatewayMethods, WebhookMethods,
           WebhookMessageMethods, ReactionMethods, ThreadStartMethods, ThreadMemberMethods,
           ThreadListMethods, ArchivedThreadMethods, CommandMethods, CommandListMethods,
           CommandPermissionMethods, InteractionMethods, StageAndScheduledEventMethods,
           OnboardingAndRuleMethods, RoleConnectionAndPollMethods,
           EntitlementMethods, OAuth2Methods, PermissionMethods}

Ops == {m.op : m \in Methods}

\* The forms a method can take, by its name.
Named == [op \in Ops |-> {m \in Methods : m.op = op}]

\* Methods that look at their arguments, or at what an earlier request of theirs
\* returned, and may return an error before they make the request.
Checked == {
    "GuildEdit", "GuildEditPatch", "GuildRoleEdit", "GuildPruneCount", "GuildPrune", "GuildIconGet",
    "GuildSplashGet", "ChannelMessageSendComplex", "ChannelMessageSendReply",
    "ChannelMessageSendEmbedsReply", "ChannelMessageEditComplex", "ForumThreadStartComplex",
    "webhookExecute", "WebhookMessageEdit", "InteractionRespond"}

\* Names above that are not methods the program can call.
Internal == {"GuildEditPatch", "GuildIconGet", "GuildSplashGet", "webhookExecute"}
==============================================================================
