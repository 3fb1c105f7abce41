------------------------------- MODULE Config -------------------------------
(***************************************************************************)
(* The two configurations of src/dht/config.go, NewStandardConfig and     *)
(* NewCrawlConfig, reduced to the fields the routing table reads (the      *)
(* crawl configuration's zero KBucketExpiredAfter is in Fresh, which runs  *)
(* only in crawl mode here).  The library's default is the standard        *)
(* configuration; src/main.go runs the crawler with the crawl one.        *)
(***************************************************************************)
EXTENDS Naturals

CONSTANTS
    StdKBucketSize,  \* NewStandardConfig's KBucketSize (8 in the code)
    MaxInt32,        \* math.MaxInt32, larger than any bucket the model fills
    MaxNodes,        \* Config.MaxNodes (5000 in the code)
    StdRefreshNodeNum,   \* NewStandardConfig's RefreshNodeNum (8)
    CrawlRefreshNodeNum  \* NewCrawlConfig's RefreshNodeNum (256)

ASSUME StdKBucketSize \in Nat \ {0} /\ MaxNodes \in Nat \ {0}
ASSUME MaxInt32 \in Nat /\ MaxInt32 > MaxNodes
ASSUME {StdRefreshNodeNum, CrawlRefreshNodeNum} \subseteq Nat \ {0}

ConfigRecord ==
    [KBucketSize : Nat, MaxNodes : Nat, Mode : {"standard", "crawl"}, RefreshNodeNum : Nat]

NewStandardConfig ==
    [KBucketSize |-> StdKBucketSize, MaxNodes |-> MaxNodes, Mode |-> "standard",
     RefreshNodeNum |-> StdRefreshNodeNum]

\* NewStandardConfig with the crawl overrides.
NewCrawlConfig ==
    [NewStandardConfig EXCEPT !.KBucketSize = MaxInt32,
                              !.Mode = "crawl",
                              !.RefreshNodeNum = CrawlRefreshNodeNum]

\* The configuration a DHT of the given mode is created with.
NewConfig(mode) == IF mode = "crawl" THEN NewCrawlConfig ELSE NewStandardConfig

=============================================================================
