---------------------------- MODULE MCTaskTopic ----------------------------
EXTENDS TaskTopic
=============================================================================
