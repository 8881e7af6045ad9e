\* Two threads for three services and four announcements.
SPECIFICATION Spec
CONSTANTS
    Tasks = {t1, t2}
    Services = {s1, s2, s3}
    NoService = NoService
    MaxAnnouncements = 4
    MaxSpurious = 1
INVARIANTS TypeOK NoMoreThanAccepted
PROPERTIES AnnouncementsGoOn
CHECK_DEADLOCK FALSE
