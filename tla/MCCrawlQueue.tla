---------------------------- MODULE MCCrawlQueue ----------------------------
(* Instances of CrawlQueue for TLC: how nodes share hosts, accounts, links. *)
EXTENDS CrawlQueue, TLC

OneHost == [n \in Node |-> "h"]
OneUser == [n \in Node |-> "u"]
NoLinks == [n \in Node |-> {}]
LinkBoth == [n \in Node |-> Node \ {n}]

\* With one host, one account and mutual links, pages can be told apart by name only.
Pages == Permutations(Node)
=============================================================================
