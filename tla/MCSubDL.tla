-------------------------------- MODULE MCSubDL --------------------------------
(* An episode, films with years in their titles, and a file nobody can    *)
(* name.                                                                   *)
EXTENDS SubDL

MCKey(title) == [i \in DOMAIN title |-> IF title[i] = "SHOW" THEN "show" ELSE title[i]]
MCLower(text) == IF text = "WEBRIP" THEN "webrip" ELSE text

Word(t) == [kind |-> "word", text |-> t, number |-> 0]
YearToken(t, n) == [kind |-> "year", text |-> t, number |-> n]
Source(t) == [kind |-> "source", text |-> t, number |-> 0]
EpisodeToken == [kind |-> "episode", text |-> "s01e02", number |-> 0]

MCName ==
  [show |-> [class |-> Episode(1, 2), group |-> "grp",
             tokens |-> << Word("show"), EpisodeToken, Source("webrip") >>],
   film |-> [class |-> Movie, group |-> "",
             tokens |-> << YearToken("2012", 2012), YearToken("2009", 2009), Source("bluray"),
                           YearToken("2020", 2020) >>],
   sequel |-> [class |-> Movie, group |-> "",
               tokens |-> << Word("a"), YearToken("2049", 2049), YearToken("2009", 2009) >>],
   novel |-> [class |-> Movie, group |-> "",
              tokens |-> << YearToken("1984", 1984), Word("a"), YearToken("2009", 2009),
                            Source("bluray"), YearToken("2020", 2020), Word("a") >>],
   nameless |-> [class |-> Movie, group |-> "", tokens |-> << Word("x") >>]]

\* What they are.
MCTitled ==
  [show |-> [title |-> <<"show">>, year |-> 0], film |-> [title |-> <<"2012">>, year |-> 2009],
   sequel |-> [title |-> <<"a", "2049">>, year |-> 2009], novel |-> [title |-> <<"1984", "a">>, year |-> 2009]]

Like(source, group) == [source |-> source, group |-> group, resolution |-> "", codec |-> ""]

Single(url, s, e, cosmetics) ==
  [fullSeason |-> FALSE, url |-> url, season |-> s, episode |-> e, cosmetics |-> cosmetics, files |-> <<>>]
Pack(files) ==
  [fullSeason |-> TRUE, url |-> "season", season |-> 1, episode |-> 0, cosmetics |-> Like("", ""),
   files |-> files]
File(url, name, release, wire) ==
  [url |-> url, name |-> name, release |-> release, wire |-> wire, cosmetics |-> Like("WEBRIP", "")]

PageOf(title, year, k, n, items) ==
  [title |-> title, year |-> year, items |-> items, current |-> k, total |-> n]

\* The entries of a pack as the server labels them, and as their names do.
Season1 ==
  Pack(<< File("e1", Episode(1, 1), Movie, Episode(1, 2)),
          File("e2", Movie, Episode(1, 2), Episode(0, 0)),
          File("extra", Movie, Movie, Episode(1, 2)) >>)

ShowPage(k, n, items) == PageOf(<<"SHOW">>, 2018, k, n, items)
Wrong == Single("e1", 1, 1, Like("webrip", "grp"))

MCListing ==
  [show |-> {"packed", "zipped", "deep", "mixed", "empty"}, film |-> {"films", "remake"}, nameless |-> {"any"},
   sequel |-> {"empty"}, novel |-> {"empty"}]

MCPages ==
  [packed |-> << ShowPage(1, 1, << Wrong, Season1, Single("zip", 1, 2, Like("", "grp")) >>) >>,
   zipped |-> << ShowPage(1, 1, << Single("mixed", 1, 2, Like("", "")), Single("zip", 1, 2, Like("", "grp")) >>) >>,
   deep |->
     << ShowPage(1, 4, << Wrong >>), ShowPage(2, 4, << Wrong >>), ShowPage(3, 4, << Season1 >>),
        ShowPage(4, 4, << Single("e2", 1, 2, Like("webrip", "grp")) >>) >>,
   mixed |->
     << ShowPage(1, 2, << Wrong >>), ShowPage(2, 2, << Single("mixed", 1, 2, Like("", "")) >>) >>,
   empty |-> <<>>,
   films |->
     << PageOf(<<"2012">>, 2009, 1, 2, << Single("film", 0, 0, Like("webrip", "")) >>),
        PageOf(<<"2012">>, 2009, 2, 2, << Single("two", 0, 0, Like("bluray", "")), Season1 >>) >>,
   remake |-> << PageOf(<<"2012">>, 2020, 1, 1, << Single("film", 0, 0, Like("bluray", "")) >>) >>,
   any |-> << PageOf(<<"x">>, 2000, 1, 1, << Single("film", 0, 0, Like("", "")) >>) >>]

Srt(class) == [srt |-> TRUE, class |-> class]
Other == [srt |-> FALSE, class |-> Episode(1, 2)]
Raw(class) == [zip |-> FALSE, entries |-> << Srt(class) >>]
Archive(entries) == [zip |-> TRUE, entries |-> entries]

MCUrl == {"e1", "e2", "extra", "season", "zip", "mixed", "film", "two"}
MCText ==
  {"", "show", "SHOW", "s01e02", "2012", "2009", "2020", "2049", "1984", "a", "x", "WEBRIP", "webrip", "bluray", "grp"}

MCBody ==
  [ e1 |-> Raw(Episode(1, 1)), e2 |-> Raw(Episode(1, 2)), extra |-> Raw(Movie), season |-> Archive(<<>>),
    zip |-> Archive(<< Srt(Episode(1, 1)), Other, Srt(Episode(1, 2)) >>),
    mixed |-> Archive(<< Srt(Episode(1, 3)), Srt(Episode(1, 2)), Srt(Episode(1, 2)) >>),
    film |-> Archive(<< Other, Srt(Movie) >>), two |-> Archive(<< Srt(Movie), Srt(Movie) >>) ]
=============================================================================
