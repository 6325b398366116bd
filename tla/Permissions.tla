---------------------------- MODULE Permissions ----------------------------
(***************************************************************************)
(* What a member may do in a channel (restapi.go, memberPermissions) and   *)
(* in which colour a name is shown (state.go, firstRoleColorColor): pure   *)
(* functions of a guild, a channel and the ids of the member's roles.      *)
(*                                                                         *)
(* A guild is a record of its id, owner and roles, a role one of its id,   *)
(* permissions, color and position, an overwrite one of its id, type, deny *)
(* and allow.  A bit mask is the set of the bits in it, so that | is       *)
(* \cup, & ^ is \ and PermissionAll is a set of names.  Ids are Discord's  *)
(* snowflakes: no two roles of a guild, and no two overwrites of a channel,*)
(* share one, so that the order the loops go through them in, and where    *)
(* they break, do not matter.                                              *)
(***************************************************************************)
EXTENDS Integers

PermissionAllText ==
    {"ViewChannel", "SendMessages", "SendTTSMessages", "ManageMessages", "EmbedLinks",
     "AttachFiles", "ReadMessageHistory", "MentionEveryone"}

PermissionAllVoice ==
    {"ViewChannel", "VoiceConnect", "VoiceSpeak", "VoiceMuteMembers", "VoiceDeafenMembers",
     "VoiceMoveMembers", "VoiceUseVAD", "VoicePrioritySpeaker"}

PermissionAllChannel ==
    PermissionAllText \cup PermissionAllVoice \cup
    {"CreateInstantInvite", "ManageRoles", "ManageChannels", "AddReactions", "ViewAuditLogs"}

Administrator == "Administrator"

PermissionAll ==
    PermissionAllChannel \cup
    {"KickMembers", "BanMembers", "ManageServer", Administrator, "ManageWebhooks", "ManageEmojis"}

\* What the role @everyone, which has the guild's id, and the member's own
\* roles grant in the guild; an administrator has everything.
GuildPermissions(guild, roles) ==
    LET granted == UNION {r.permissions : r \in {r \in guild.roles : r.id \in roles \cup {guild.id}}}
    IN  granted \cup (IF Administrator \in granted THEN PermissionAll ELSE {})

\* One pass over overwrites: what they deny goes before what they allow.
Apply(permissions, overwrites) ==
    (permissions \ UNION {o.deny : o \in overwrites}) \cup UNION {o.allow : o \in overwrites}

EveryoneOverwrites(guild, overwrites)  == {o \in overwrites : o.id = guild.id}
RoleOverwrites(roles, overwrites)      == {o \in overwrites : o.type = "role" /\ o.id \in roles}
MemberOverwrites(userID, overwrites)   == {o \in overwrites : o.type = "member" /\ o.id = userID}

\* The three passes over the overwrites of the channel: those of @everyone,
\* those of the member's roles taken together, and the member's own.
ChannelPermissions(guild, overwrites, userID, roles) ==
    Apply(Apply(Apply(GuildPermissions(guild, roles),
                      EveryoneOverwrites(guild, overwrites)),
                RoleOverwrites(roles, overwrites)),
          MemberOverwrites(userID, overwrites))

memberPermissions(guild, overwrites, userID, roles) ==
    LET permissions == ChannelPermissions(guild, overwrites, userID, roles)
    IN  IF userID = guild.owner THEN PermissionAll
        ELSE permissions \cup (IF Administrator \in permissions THEN PermissionAllChannel ELSE {})

\* The member's roles that have a colour.
Colored(guild, memberRoles) == {r \in guild.roles : r.id \in memberRoles /\ r.color # 0}

\* The highest of some roles: Roles.Less puts higher positions first, and
\* sort.Sort leaves roles of one position in any order.
Highest(roles) == {r \in roles : \A q \in roles : q.position <= r.position}

\* The colours firstRoleColorColor may return: that of the highest role that
\* has one, or else that of @everyone, or else 0.
firstRoleColorColor(guild, memberRoles) ==
    LET colored  == Colored(guild, memberRoles)
        everyone == {r \in guild.roles : r.id = guild.id}
    IN  IF colored # {} THEN {r.color : r \in Highest(colored)}
        ELSE IF everyone # {} THEN {r.color : r \in everyone}
        ELSE {0}
=============================================================================
