CHECK_DEADLOCK FALSE
SPECIFICATION Spec
CONSTANTS
    g1 = g1
    g2 = g2
    u1 = u1
    u2 = u2
    c1 = c1
    c2 = c2
    t1 = t1
    d1 = d1
    m1 = m1
    m2 = m2
    i1 = i1
    program = program
    loop = loop
    None = None
    Guild = {g1}
    User = {u1}
    Text = {c1}
    Thread = {t1}
    Private = {d1}
    Item = {i1}
    Message = {m1,m2}
    Home <- MCHome
    Parent <- MCParent
    In <- MCIn
    MaxMessageCount = 1
    Track = {"members", "channels", "threads", "threadMembers", "items"}
    Program = {program}
    ProgramOps = {"GuildRemove", "GuildAdd", "MemberAdd", "MemberRemove", "RoleAdd", "RoleRemove", "EmojiAdd", "PresenceRemove", "ChannelAdd", "ChannelRemove", "MessageAdd", "MessageRemove"}
    MaxCalls = 1
    MaxEvents = 7
INVARIANTS TypeOK Agree Current MessagesKept
