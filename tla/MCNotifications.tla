--------------------------- MODULE MCNotifications ---------------------------
EXTENDS Notifications
=============================================================================
