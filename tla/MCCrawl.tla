------------------------------- MODULE MCCrawl -------------------------------
(* Two triggers of a crawl and one refresh at a time. *)
EXTENDS CrawlRunner

CONSTANTS a, b, x1, x2, y1

MCCodes == {a, b}
MCCrawlers == {x1, x2}
=============================================================================
