----------------------------- MODULE MCStartup -----------------------------
(* Instances of Startup for TLC.                                           *)
EXTENDS Startup, TLC
CONSTANTS s1, s2, t1, t2, t3

Starts == Permutations(Processes)

Named(stem, number, twos) == [stem |-> stem, number |-> number, twos |-> twos]

Item(id, address, token, enabled, hasGet) ==
    [id |-> id, address |-> address, token |-> token, enabled |-> enabled,
     hasGet |-> hasGet]

OldFile(version, settings, items) ==
    [version |-> version, settings |-> settings, items |-> items, providers |-> <<>>]

mine == Named("x", 0, 0)

\* Version 2: the proxy's routes, two keys of one platform, an entry without a
\* path, one of another port, one of an unknown host.
V2File == OldFile(2, DefaultSettings, <<
    Item(mine, "proxy/kimi", t1, TRUE, TRUE),
    Item(Named("k", 2, 0), "deepseek", t2, TRUE, FALSE),
    Item(NoId, "proxy/opencode", t2, FALSE, TRUE),
    Item(mine, "moonshot.cn", t3, FALSE, TRUE),
    Item(Named("y", 0, 0), "proxy/other", t3, TRUE, TRUE)>>)

\* Version 3: keys of two platforms mixed, an id given twice, ids that look like
\* generated ones, an address of version 2; half a listen section, a collector
\* section that counts for nothing, no mode.
V3Settings == [DefaultSettings EXCEPT !.host = "", !.port = 80, !.interval = 0,
                                      !.pacing = FALSE, !.mode = ""]

V3File == OldFile(3, V3Settings, <<
    Item(mine, "opencode", t1, TRUE, TRUE),
    Item(Named("k", 2, 0), "zhipu-glm", t2, TRUE, TRUE),
    Item(NoId, "zhipu-glm", t3, FALSE, TRUE),
    Item(Named("x", 0, 1), "opencode", NoToken, TRUE, TRUE),
    Item(mine, "opencode", t2, FALSE, TRUE),
    Item(Named("y", 0, 0), "proxy/kimi", t3, TRUE, TRUE),
    Item(Named("z", 0, 0), "elsewhere", t3, TRUE, TRUE)>>)

OneKey(version, settings) ==
    [NewFile(settings, <<[platform |-> "deepseek",
        keys |-> <<[id |-> mine, token |-> t1, enabled |-> TRUE]>>]>>)
     EXCEPT !.version = version]

Usual == [DefaultSettings EXCEPT !.interval = 60]

\* Every kind of file a user may have, one refused for its version, one for its
\* host.
AllFiles == {None, V2File, V3File, OneKey(4, Usual), OneKey(5, Usual),
             OneKey(1, Usual), OneKey(5, [Usual EXCEPT !.host = "name"])}

Command(interval, host, port, password) ==
    [interval |-> interval, host |-> host, port |-> port, password |-> password]

ValidFlags == {NoFlags, Command(60, "address", 9000, TRUE)}

ShortFlags == ValidFlags \cup {Command(10, "", 0, TRUE)}

OneFile == {OneKey(5, Usual)}

OneBody == {[DefaultSettings EXCEPT !.mode = "none"]}

\* The files and the commands of the upgrade run are what the theorem asks for.
ASSUME Flags = ShortFlags \/ FitInputs
=============================================================================
