CONSTANT Calls = {"scan", "results", "connect", "with_netid", "add", "auto", "disconnect", "list", "get_netid", "remove"}
SPECIFICATION FairSpec
INVARIANTS TypeOK PausedMeansQuiet NoLostResume MutexSafe NoPauseLeak
PROPERTIES StopFinishes RequestServed
