SPECIFICATION FairSpec
CONSTANTS
    u1 = u1  y1 = y1  f1 = f1  s1 = s1  s2 = s2
    race = race  list = list  harvest = harvest  order = order  wheel = wheel
    Mutations = {u1}
    Syncs = {y1}
    Farm = {f1}
    Side = {s1, s2}
    Kinds = {race, list, harvest, order, wheel}
    Kind <- KindOf
    Rank <- RankOf
    Enter = wheel
    None = None
    RequestInterval = 1
    RepeatInterval = 4
    MaxWait = 3
    Interval = 2
    Cooldown = 3
    MaxSurprises = 1
    Crowd = 1
INVARIANT TypeOK
  
