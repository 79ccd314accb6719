---------------------------- MODULE MCRedisLock ----------------------------
EXTENDS RedisLock
=============================================================================
