---------------------------- MODULE MCRedisQueues ----------------------------
(* Model-checking instance of RedisQueues. *)
EXTENDS RedisQueues

\* Known and unknown queue types and script directories; only the Lua driven
\* queue looks at the directory.
MCConfigs ==
    {c \in [queueType: {"noop_queue", "sorted_set", "lua_driven_bins_queue", "other"},
            luaQueueDirPath: LuaTypes \cup {"opt_polldriven_nobins"},
            redisUp: BOOLEAN] :
        c.queueType # "lua_driven_bins_queue" => c.luaQueueDirPath = "noop"}

\* The window of the sorted set queue grows only with four clients; three are
\* enough for the others.
MCArrivals == [type \in QueueTypes |-> IF type = "sorted_set" THEN N ELSE N - 1]
=============================================================================
