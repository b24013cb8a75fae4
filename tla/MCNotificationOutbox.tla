------------------------ MODULE MCNotificationOutbox ------------------------
(***************************************************************************)
(* Small instances of the outbox.                                          *)
(***************************************************************************)
EXTENDS NotificationOutbox, TLC

CONSTANTS t1, u1, u2, opened, upcoming

EventUserDevice == {opened, upcoming} \X {u1, u2} \X {t1}
ToItsDevice     == [d \in EventUserDevice |-> d[3]]

\* Announcements of a session are for the inbox and cannot be configured; reminders
\* are off until a user asks for them, in the inbox and on the device.
TypesOf ==
    [e \in {opened, upcoming} |->
        [active |-> TRUE, configurable |-> e = upcoming,
         default |-> [inApp |-> e = opened, push |-> FALSE]]]

OptIn == {[inApp |-> TRUE, push |-> TRUE]}
Both  == {{u1, u2}}

=============================================================================
